---------------------------- MODULE Spec2Model ----------------------------
(***************************************************************************)
(* Model of the exam PDF pipeline of src/src/pdf_parser.py:                *)
(*   - parse_questions_from_pdf_text, the line scanner that segments a     *)
(*     page's text into question / option records, driven page by page by  *)
(*     parse_questions_from_pdf;                                           *)
(*   - parse_answers_from_pdf_text, the answer-grid reconstruction from    *)
(*     positioned words followed by the erratum ("備註") interpreter;      *)
(*   - combine_questions_and_answers, the merge stage.                     *)
(*                                                                         *)
(* Text is modelled character by character: a string is a sequence of      *)
(* one-character tokens.  Characters outside ASCII are written with ASCII  *)
(* names: "FWDOT" is the full-width period U+FF0E, "FW_A".."FW_D" the      *)
(* full-width letters U+FF21.., "FWLP"/"FWRP" the full-width parentheses,  *)
(* "NL" the newline.  The Chinese words of the erratum grammar are single  *)
(* tokens named in pinyin ("DI" 第, "TI" 題, ...), see the erratum part.   *)
(***************************************************************************)
EXTENDS Integers, Sequences, FiniteSets, TLC

VARIABLES
    \* ---- parse_questions_from_pdf / parse_questions_from_pdf_text ----
    pc,                     \* position in parse_questions_from_pdf
    parsing_mode,           \* "default" or "strict_start"
    doc,                    \* the pages read so far, each the lines scanned so far
    booklet,                \* lines of a prepared text still to be scanned
    built_from,             \* the question records a prepared text was built from
    questions_data,         \* records finished on the current page
    current_question,       \* the record being built ({} when none)
    current_text_buffer,    \* lines buffered for the active field
    active_option_letter,   \* key of the option being read, or None
    current_state,          \* ParsingState
    all_parsed_questions_data,  \* records of all finished pages
    \* ---- parse_answers_from_pdf_text / combine_questions_and_answers ----
    apc,                    \* position in parse_answers_from_pdf_text and after it
    pages_read,             \* answer pages read so far
    words,                  \* the positioned words of the page, sorted by (top, left)
    q_num_rows_data,        \* the page's question-number rows
    ans_rows_data,          \* the page's answer rows
    processed_ans_row_indices,
    q_row_i,                \* position of the loop over q_num_rows_data
    best_candidate_ans_row, \* the answer row paired with the current row, or None
    q_idx,                  \* position of the loop over the row's q_numbers
    answers,                \* question number -> list of answer tokens
    notes,                  \* question number -> note
    grid_answers,           \* answers as the grid left it, before the erratum block
    note_text,              \* the erratum block, or None when no line starts it
    questions,              \* combine_questions_and_answers: its questions argument
    answers_map,            \* ... its answers_map argument
    notes_map,              \* ... its notes_map argument
    combined_data,          \* ... its result
    \* ---- extract_metadata_from_text ----
    mpc,                    \* position in extract_metadata_from_text
    pdf_text,               \* its pdf_text argument
    filename,               \* its filename argument
    meta,                   \* the metadata it returns
    \* ---- parse_questions_from_pdf: the images of the pages ----
    ipc,                    \* position in parse_questions_from_pdf
    pdf,                    \* the document at pdf_path
    image_store,            \* the files under PROCESSED_DATA_DIR / "image"
    run,                    \* how often the document has been parsed
    page_num,               \* page_actual_number
    img_index,              \* images of the page handled so far
    page_image_data_list,   \* path and bbox of the page's images
    questions_with_images,  \* the records parse_questions_from_pdf returns
    written,                \* the files this run has written
    failed,                 \* the files whose extraction or save failed in this run
    previous_run,           \* what the run before returned and left, or None
    \* ---- main_questions.py: process_all_exam_pdfs / process_single_exam_set ----
    bpc,                    \* position in process_all_exam_pdfs
    exam_dirs,              \* the year/period directories in the order of the loops
    dir_i,                  \* the directory the loop is at
    processed_count,
    skipped_count,
    passed,                 \* directories passed to process_single_exam_set
    parsed_data,            \* what process_exam_pdfs returned, or None
    output_documents,       \* directories whose output document was saved
    error_log,              \* directories whose PDF processing was logged as failed
    \* ---- db_handler.py ----
    dpc,                    \* position of the caller of db_handler
    supabase,               \* whether the Supabase client was initialised
    subjects,               \* the rows of table subjects
    tests,                  \* the rows of table tests
    questions_table,        \* the rows of table questions
    next_id,                \* the next id the database hands out
    calls,                  \* calls of db_handler made so far
    last_call,              \* the last call: arguments, result, rows touched
    subject_history,        \* per subject name: the ids returned, the rows inserted
    \* ---- the callers of db_handler.py ----
    spc,                    \* position in process_single_exam_set
    subject_id,             \* process_single_exam_set's subject_id, or None
    test_id,                \* process_single_exam_set's test_id, or None
    db_log,                 \* the steps of process_single_exam_set taken so far
    workers,                \* per worker: its position in get_or_create_subject
    unique_names,           \* whether the subjects table refuses a second row of a name
    \* ---- combine_questions_and_answers on records held by reference ----
    heap                    \* the dicts of the question records, by address

segVars == <<pc, parsing_mode, doc, booklet, built_from, questions_data,
             current_question, current_text_buffer, active_option_letter,
             current_state, all_parsed_questions_data>>

ansVars == <<apc, pages_read, words, q_num_rows_data, ans_rows_data,
             processed_ans_row_indices, q_row_i, best_candidate_ans_row, q_idx,
             answers, notes, grid_answers, note_text, questions,
             answers_map, notes_map, combined_data>>

metaVars == <<mpc, pdf_text, filename, meta>>

imgVars == <<ipc, pdf, image_store, run, page_num, img_index, page_image_data_list,
             questions_with_images, written, failed, previous_run>>

batchVars == <<bpc, exam_dirs, dir_i, processed_count, skipped_count, passed,
               parsed_data, output_documents, error_log>>

dbVars == <<dpc, supabase, subjects, tests, questions_table, next_id, calls,
            last_call, subject_history>>

callerVars == <<spc, subject_id, test_id, db_log, workers, unique_names, heap>>

\* the variables outside the question scanner and the answer parser
restVars == <<metaVars, imgVars, batchVars, dbVars, callerVars>>

\* the variables outside one part
notMetaVars == <<segVars, ansVars, imgVars, batchVars, dbVars, callerVars>>
notImgVars == <<segVars, ansVars, metaVars, batchVars, dbVars, callerVars>>
notBatchVars == <<segVars, ansVars, metaVars, imgVars, dbVars, callerVars>>
notDbVars == <<segVars, ansVars, metaVars, imgVars, batchVars, callerVars>>

vars == <<segVars, ansVars, restVars>>

\* Python's None
None == "None"

\* an empty dict
EmptyDict == [k \in {} |-> << >>]

\* In the answer side a value that may be None is a sequence: << >> is None (or,
\* for a string tested for truth, the empty string) and <<v>> is the value v
Nothing == << >>
Some(v) == <<v>>

\* the answer side before any page is read; where is the position it starts at
AnswersFresh(where) ==
    /\ apc = where
    /\ pages_read = 0
    /\ words = << >>
    /\ q_num_rows_data = << >>
    /\ ans_rows_data = << >>
    /\ processed_ans_row_indices = {}
    /\ q_row_i = 0
    /\ best_candidate_ans_row = Nothing
    /\ q_idx = 0
    /\ answers = EmptyDict
    /\ notes = EmptyDict
    /\ grid_answers = EmptyDict
    /\ note_text = Nothing
    /\ questions = << >>
    /\ answers_map = EmptyDict
    /\ notes_map = Nothing
    /\ combined_data = << >>

\* the answer side while only the question booklet is parsed
AnswersIdle == AnswersFresh("idle")

\* the metadata extraction while it is not run
MetadataIdle ==
    /\ mpc = "idle"
    /\ pdf_text = << >>
    /\ filename = << >>
    /\ meta = EmptyDict

\* the image side of parse_questions_from_pdf while it is not run
ImagesIdle ==
    /\ ipc = "idle"
    /\ pdf = << >>
    /\ image_store = {}
    /\ run = 0
    /\ page_num = 0
    /\ img_index = 0
    /\ page_image_data_list = << >>
    /\ questions_with_images = << >>
    /\ written = {}
    /\ failed = {}
    /\ previous_run = Nothing

\* process_all_exam_pdfs while it is not run
BatchIdle ==
    /\ bpc = "idle"
    /\ exam_dirs = << >>
    /\ dir_i = 0
    /\ processed_count = 0
    /\ skipped_count = 0
    /\ passed = {}
    /\ parsed_data = Nothing
    /\ output_documents = {}
    /\ error_log = {}

\* no exam set is processed and no worker runs
CallersIdle ==
    /\ spc = "idle"
    /\ subject_id = << >>
    /\ test_id = << >>
    /\ db_log = << >>
    /\ workers = << >>
    /\ unique_names = FALSE
    /\ heap = << >>

\* the database while nothing calls db_handler
DatabaseIdle ==
    /\ CallersIdle
    /\ dpc = "idle"
    /\ supabase = FALSE
    /\ subjects = {}
    /\ tests = {}
    /\ questions_table = {}
    /\ next_id = 1
    /\ calls = 0
    /\ last_call = Nothing
    /\ subject_history = EmptyDict

\* everything outside the question scanner and the answer parser is not run
RestIdle == MetadataIdle /\ ImagesIdle /\ BatchIdle /\ DatabaseIdle

-----------------------------------------------------------------------------
(* Bounds of the model *)

\* lines scanned in one document, over all its pages
MaxLines == 3
\* pages of one question booklet
MaxPages == 2
\* questions of a prepared (round-trip) booklet
MaxBooklet == 3

-----------------------------------------------------------------------------
(* Characters and strings *)

Digits == {"0", "1", "2", "3", "4"}
HalfWidthUpper == {"A", "B", "C", "D"}
FullWidthUpper == {"FW_A", "FW_B", "FW_C", "FW_D"}

\* Python's \s and str.strip(): the blank, the newline and the ideographic space
\* U+3000 ("IDSP") are the whitespace here
IsSpace(c) == c \in {" ", "NL", "IDSP"}
\* Python's \d and str.isdigit()
IsDigit(c) == c \in Digits

DigitValue(c) ==
    CASE c = "0" -> 0 [] c = "1" -> 1 [] c = "2" -> 2 [] c = "3" -> 3 [] c = "4" -> 4

\* int(s) of a digit string
RECURSIVE ToInt(_)
ToInt(s) ==
    IF Len(s) = 0 THEN 0
    ELSE 10 * ToInt(SubSeq(s, 1, Len(s) - 1)) + DigitValue(s[Len(s)])

\* first index >= i of s that holds no whitespace (Len(s)+1 when there is none)
RECURSIVE SkipSpace(_, _)
SkipSpace(s, i) ==
    IF i <= Len(s) /\ IsSpace(s[i]) THEN SkipSpace(s, i + 1) ELSE i

\* first index >= i of s that holds no digit
RECURSIVE SkipDigits(_, _)
SkipDigits(s, i) ==
    IF i <= Len(s) /\ IsDigit(s[i]) THEN SkipDigits(s, i + 1) ELSE i

\* last index <= i of s that holds no whitespace (0 when there is none)
RECURSIVE SkipSpaceBack(_, _)
SkipSpaceBack(s, i) ==
    IF i >= 1 /\ IsSpace(s[i]) THEN SkipSpaceBack(s, i - 1) ELSE i

\* str.strip()
Strip(s) == SubSeq(s, SkipSpace(s, 1), SkipSpaceBack(s, Len(s)))

\* a join that puts a blank, not a newline, between the buffered lines
RECURSIVE JoinWithBlank(_)
JoinWithBlank(buffer) ==
    IF Len(buffer) = 0 THEN << >>
    ELSE IF Len(buffer) = 1 THEN buffer[1]
    ELSE buffer[1] \o <<" ">> \o JoinWithBlank(Tail(buffer))

\* "\n".join(buffer)
RECURSIVE JoinLines(_)
JoinLines(buffer) ==
    IF Len(buffer) = 0 THEN << >>
    ELSE IF Len(buffer) = 1 THEN buffer[1]
    ELSE buffer[1] \o <<"NL">> \o JoinLines(Tail(buffer))

\* a dict is a function on the set of its keys
DictPut(d, k, v) == [x \in (DOMAIN d) \cup {k} |-> IF x = k THEN v ELSE d[x]]

-----------------------------------------------------------------------------
(* The marker patterns *)

NoMatch == [matched |-> FALSE]

\* ^\s*(\d+)\s*.\s*(.*)   -- . is the half-width period only
DEFAULT_QUESTION_START_REGEX_STR(line) ==
    LET a == SkipSpace(line, 1)
        b == SkipDigits(line, a)
        c == SkipSpace(line, b)
    IN  IF b > a /\ c <= Len(line) /\ line[c] = "."
        THEN [matched |-> TRUE,
              group1 |-> SubSeq(line, a, b - 1),
              group2 |-> SubSeq(line, SkipSpace(line, c + 1), Len(line))]
        ELSE NoMatch

\* the strict pattern without its lookahead (?!\d)
StrictPatternWithoutLookahead(line) == DEFAULT_QUESTION_START_REGEX_STR(line)

\* ^\s*(\d+)\s*.(?!\d)\s*(.*)   -- no digit right after the period
STRICT_QUESTION_START_REGEX_STR(line) ==
    LET a == SkipSpace(line, 1)
        b == SkipDigits(line, a)
        c == SkipSpace(line, b)
    IN  IF /\ b > a /\ c <= Len(line) /\ line[c] = "."
           /\ ~(c + 1 <= Len(line) /\ IsDigit(line[c + 1]))
        THEN [matched |-> TRUE,
              group1 |-> SubSeq(line, a, b - 1),
              group2 |-> SubSeq(line, SkipSpace(line, c + 1), Len(line))]
        ELSE NoMatch

\* the pattern compiled for the mode (lines 154-159)
question_start_pattern(mode, line) ==
    IF mode = "strict_start"
    THEN STRICT_QUESTION_START_REGEX_STR(line)
    ELSE DEFAULT_QUESTION_START_REGEX_STR(line)

\* ^\s*(?:[（(]\s*([A-ZＡ-Ｚ])\s*[）)]|([A-ZＡ-Ｚ])\s*.)\s*(.*)
\* letter is group(1) or group(2), whichever alternative matched
OPTION_REGEX_STR(line) ==
    LET a == SkipSpace(line, 1)
        Upper == HalfWidthUpper \cup FullWidthUpper
        \* first alternative: ( X )
        p1 == SkipSpace(line, a + 1)
        p2 == SkipSpace(line, p1 + 1)
        \* second alternative: X .
        d1 == SkipSpace(line, a + 1)
    IN  IF /\ a <= Len(line) /\ line[a] \in {"(", "FWLP"}
           /\ p1 <= Len(line) /\ line[p1] \in Upper
           /\ p2 <= Len(line) /\ line[p2] \in {")", "FWRP"}
        THEN [matched |-> TRUE, letter |-> line[p1],
              group3 |-> SubSeq(line, SkipSpace(line, p2 + 1), Len(line))]
        ELSE IF /\ a <= Len(line) /\ line[a] \in Upper
                /\ d1 <= Len(line) /\ line[d1] = "."
        THEN [matched |-> TRUE, letter |-> line[a],
              group3 |-> SubSeq(line, SkipSpace(line, d1 + 1), Len(line))]
        ELSE NoMatch

\* chr(ord(c) - (ord('Ａ') - ord('A'))) for a full-width letter (lines 219-221)
normalized_letter(c) ==
    CASE c = "FW_A" -> "A"
      [] c = "FW_B" -> "B"
      [] c = "FW_C" -> "C"
      [] c = "FW_D" -> "D"
      [] OTHER -> c

-----------------------------------------------------------------------------
(* parse_questions_from_pdf_text: the scanner state and its steps *)

EXPECTING_QUESTION == "EXPECTING_QUESTION"
PARSING_QUESTION_CONTENT == "PARSING_QUESTION_CONTENT"
PARSING_OPTION_TEXT == "PARSING_OPTION_TEXT"

\* the empty dict current_question starts as
NoQuestion == [k \in {} |-> 0]

\* _commit_buffer committing the first buffered line only
CommitFirstLine(buffer, target_dict, field_name, option_key) ==
    LET text_to_commit == IF Len(buffer) = 0 THEN << >> ELSE Strip(buffer[1])
    IN  IF Len(text_to_commit) > 0
        THEN IF field_name = "options" /\ option_key # None
             THEN [target_dict EXCEPT
                     !.options = DictPut(target_dict.options, option_key, text_to_commit)]
             ELSE IF field_name = "content"
             THEN [target_dict EXCEPT !.content = text_to_commit]
             ELSE target_dict
        ELSE target_dict

\* _commit_buffer: the target dict after the buffered text is committed
commit_buffer(buffer, target_dict, field_name, option_key) ==
    LET text_to_commit == Strip(JoinLines(buffer))
    IN  IF Len(text_to_commit) > 0
        THEN IF field_name = "options" /\ option_key # None
             THEN [target_dict EXCEPT
                     !.options = DictPut(target_dict.options, option_key, text_to_commit)]
             ELSE IF field_name = "content"
             THEN [target_dict EXCEPT !.content = text_to_commit]
             ELSE target_dict
        ELSE target_dict

\* the commit both finalisations make (lines 189-192, 247-250)
FinalizeBuffer(question) ==
    IF current_state = PARSING_OPTION_TEXT /\ active_option_letter # None
    THEN commit_buffer(current_text_buffer, question, "options", active_option_letter)
    ELSE IF current_state = PARSING_QUESTION_CONTENT
    THEN commit_buffer(current_text_buffer, question, "content", None)
    ELSE question

\* questions_data after the current question is finalised and pushed
\* (a question_number of 0 is falsy: the record is not pushed)
PushCurrent ==
    IF current_question # NoQuestion
    THEN IF FinalizeBuffer(current_question).question_number # 0
         THEN Append(questions_data, FinalizeBuffer(current_question))
         ELSE questions_data
    ELSE questions_data


-----------------------------------------------------------------------------
(* The lines a page's text is drawn from *)

LineSet ==
    { <<"1", ".", " ", "x">>,              \* "1. x"
      <<"2", ".", "x">>,                   \* "2.x"
      <<"1", "FWDOT", "x">>,               \* "1．x", full-width period
      <<"3", ".", "2", "x">>,              \* "3.2x", a digit right after the period
      <<"0", ".", " ", "x">>,              \* "0. x"
      <<"(", "A", ")", " ", "x">>,         \* "(A) x"
      <<"FWLP", "FW_A", "FWRP", "y">>,     \* "（Ａ）y"
      <<"B", ".", " ", "y">>,              \* "B. y"
      <<"FW_B", ".", "y">>,                \* "Ｂ.y", full-width letter, half-width period
      <<"FW_A", "FWDOT", "y">>,            \* "Ａ．y", full-width letter and period
      <<" ", "y", " ">>,                   \* " y ", plain text
      << >> }                              \* a blank line

\* lines scanned so far, over all pages
RECURSIVE TotalLines(_)
TotalLines(d) == IF Len(d) = 0 THEN 0 ELSE Len(d[1]) + TotalLines(Tail(d))

\* the page being scanned gets one more line
DocWith(line) == [doc EXCEPT ![Len(doc)] = Append(@, line)]

-----------------------------------------------------------------------------
(* The scanner's loop body, lines 167-243: one action per branch *)

\* lines 185-207: the line starts a new question
QuestionStart(line) ==
    LET q_match == question_start_pattern(parsing_mode, line)
        initial_content_part == Strip(q_match.group2)
    IN  /\ pc = "scan"
        /\ q_match.matched
        /\ questions_data' = PushCurrent
        /\ current_question' = [question_number |-> ToInt(q_match.group1),
                                content |-> << >>,
                                options |-> EmptyDict]
        /\ current_text_buffer' = IF Len(initial_content_part) > 0
                                  THEN <<initial_content_part>> ELSE << >>
        /\ current_state' = PARSING_QUESTION_CONTENT
        /\ active_option_letter' = None
        /\ doc' = DocWith(line)
        /\ UNCHANGED <<pc, parsing_mode, built_from, all_parsed_questions_data>>
        /\ UNCHANGED <<ansVars, restVars>>

\* lines 209-231: the line starts an option of the current question
OptionStart(line) ==
    LET q_match == question_start_pattern(parsing_mode, line)
        opt_match == OPTION_REGEX_STR(line)
        committed == IF current_state = PARSING_QUESTION_CONTENT
                     THEN commit_buffer(current_text_buffer, current_question,
                                        "content", None)
                     ELSE IF current_state = PARSING_OPTION_TEXT
                             /\ active_option_letter # None
                     THEN commit_buffer(current_text_buffer, current_question,
                                        "options", active_option_letter)
                     ELSE current_question
        letter == normalized_letter(opt_match.letter)
        option_text_part == Strip(opt_match.group3)
    IN  /\ pc = "scan"
        /\ ~q_match.matched
        /\ opt_match.matched
        /\ current_question # NoQuestion
        /\ active_option_letter' = letter
        /\ current_text_buffer' = IF Len(option_text_part) > 0
                                  THEN <<option_text_part>> ELSE << >>
        /\ current_question' =
              IF letter \notin DOMAIN committed.options
              THEN [committed EXCEPT !.options = DictPut(@, letter, << >>)]
              ELSE committed
        /\ current_state' = PARSING_OPTION_TEXT
        /\ doc' = DocWith(line)
        /\ UNCHANGED <<pc, parsing_mode, built_from, questions_data,
                       all_parsed_questions_data>>
        /\ UNCHANGED <<ansVars, restVars>>

\* lines 233-239: any other line while a question is open
Continuation(line) ==
    LET q_match == question_start_pattern(parsing_mode, line)
        opt_match == OPTION_REGEX_STR(line)
        line_stripped == Strip(line)
    IN  /\ pc = "scan"
        /\ ~q_match.matched
        /\ ~opt_match.matched
        /\ current_question # NoQuestion
        /\ current_text_buffer' =
              IF /\ Len(line_stripped) > 0
                 /\ current_state \in {PARSING_QUESTION_CONTENT, PARSING_OPTION_TEXT}
              THEN Append(current_text_buffer, line_stripped)
              ELSE current_text_buffer
        /\ doc' = DocWith(line)
        /\ UNCHANGED <<pc, parsing_mode, built_from, questions_data, current_question,
                       active_option_letter, current_state,
                       all_parsed_questions_data>>
        /\ UNCHANGED <<ansVars, restVars>>

\* lines 240-243: a line before the first question of the text
Skipped(line) ==
    LET q_match == question_start_pattern(parsing_mode, line)
    IN  /\ pc = "scan"
        /\ ~q_match.matched
        /\ current_question = NoQuestion
        /\ doc' = DocWith(line)
        /\ UNCHANGED <<pc, parsing_mode, built_from, questions_data, current_question,
                       current_text_buffer, active_option_letter, current_state,
                       all_parsed_questions_data>>
        /\ UNCHANGED <<ansVars, restVars>>

\* one pass of the for loop over lines
ScanLine(line) ==
    \/ QuestionStart(line)
    \/ OptionStart(line)
    \/ Continuation(line)
    \/ Skipped(line)

-----------------------------------------------------------------------------
(* parse_questions_from_pdf: the page loop around the scanner *)

\* lines 837-840, 913-917: the page's record as the page loop stores it
\* (the pages modelled here embed no image, so no image is associated)
PageRecord(q_text_data, page_actual_number) ==
    [question_number |-> q_text_data.question_number,
     content |-> q_text_data.content,
     options |-> q_text_data.options,
     image_path |-> None,
     page_number |-> page_actual_number]

\* a page loop whose scanner keeps the records of the page before
OpenPageKeepingRecords ==
    /\ pc \in {"open", "paged"}
    /\ Len(doc) < MaxPages
    /\ doc' = Append(doc, << >>)
    /\ current_question' = NoQuestion
    /\ current_text_buffer' = << >>
    /\ active_option_letter' = None
    /\ current_state' = EXPECTING_QUESTION
    /\ pc' = "scan"
    /\ UNCHANGED <<parsing_mode, booklet, built_from, questions_data,
                   all_parsed_questions_data>>
    /\ UNCHANGED <<ansVars, restVars>>

\* lines 776, 826-831 and 147-151: the next page is read and a fresh scanner starts
OpenPage ==
    /\ pc \in {"open", "paged"}
    /\ Len(doc) < MaxPages
    /\ doc' = Append(doc, << >>)
    /\ questions_data' = << >>
    /\ current_question' = NoQuestion
    /\ current_text_buffer' = << >>
    /\ active_option_letter' = None
    /\ current_state' = EXPECTING_QUESTION
    /\ pc' = "scan"
    /\ UNCHANGED <<parsing_mode, booklet, built_from,
                   all_parsed_questions_data>>
    /\ UNCHANGED <<ansVars, restVars>>

\* lines 245-255 and 837-917: the text ends, the last question is flushed and the
\* page's records join the document's
EndOfText ==
    /\ pc = "scan"
    /\ booklet = << >>
    /\ questions_data' = PushCurrent
    /\ all_parsed_questions_data' =
          all_parsed_questions_data \o
          [i \in 1..Len(PushCurrent) |-> PageRecord(PushCurrent[i], Len(doc))]
    /\ pc' = "paged"
    /\ UNCHANGED <<parsing_mode, doc, booklet, built_from, current_question,
                   current_text_buffer, active_option_letter, current_state>>
    /\ UNCHANGED <<ansVars, restVars>>

\* lines 919-921: no page is left
CloseDoc ==
    /\ pc \in {"open", "paged"}
    /\ pc' = "parsed"
    /\ UNCHANGED <<parsing_mode, doc, booklet, built_from, questions_data,
                   current_question, current_text_buffer, active_option_letter,
                   current_state, all_parsed_questions_data>>
    /\ UNCHANGED <<ansVars, restVars>>

\* a page's text supplies one more line
ScanPageLine ==
    /\ TotalLines(doc) < MaxLines
    /\ \E line \in LineSet : ScanLine(line)
    /\ UNCHANGED booklet

InitSeg ==
    /\ pc = "open"
    /\ parsing_mode \in {"default", "strict_start"}
    /\ doc = << >>
    /\ booklet = << >>
    /\ built_from = << >>
    /\ questions_data = << >>
    /\ current_question = NoQuestion
    /\ current_text_buffer = << >>
    /\ active_option_letter = None
    /\ current_state = EXPECTING_QUESTION
    /\ all_parsed_questions_data = << >>
    /\ AnswersIdle
    /\ RestIdle

NextSeg ==
    \/ OpenPage
    \/ ScanPageLine
    \/ EndOfText
    \/ CloseDoc

\* the question booklet parsed page by page, its lines drawn from LineSet
SpecSeg == InitSeg /\ [][NextSeg]_vars

-----------------------------------------------------------------------------
(* parse_questions_from_pdf_text as a function of the lines and the mode *)

\* lines 147-151: the scanner before the first line
ScannerStart ==
    [questions_data |-> << >>,
     current_question |-> NoQuestion,
     current_text_buffer |-> << >>,
     active_option_letter |-> None,
     current_state |-> EXPECTING_QUESTION]

\* lines 189-192, 247-250: the current question with the buffered text committed
Finalized(st) ==
    IF st.current_state = PARSING_OPTION_TEXT /\ st.active_option_letter # None
    THEN commit_buffer(st.current_text_buffer, st.current_question, "options",
                       st.active_option_letter)
    ELSE IF st.current_state = PARSING_QUESTION_CONTENT
    THEN commit_buffer(st.current_text_buffer, st.current_question, "content", None)
    ELSE st.current_question

\* questions_data with the current question pushed, whatever its number
PushedWithAnyNumber(st) ==
    IF st.current_question # NoQuestion
    THEN Append(st.questions_data, Finalized(st))
    ELSE st.questions_data

\* lines 187-195, 245-255: questions_data with the current question pushed
Pushed(st) ==
    IF st.current_question # NoQuestion
    THEN IF Finalized(st).question_number # 0
         THEN Append(st.questions_data, Finalized(st))
         ELSE st.questions_data
    ELSE st.questions_data

\* lines 167-243: the scanner after one more line
ScannerStep(st, line, mode) ==
    LET q_match == question_start_pattern(mode, line)
        opt_match == OPTION_REGEX_STR(line)
        line_stripped == Strip(line)
    IN  IF q_match.matched
        THEN [questions_data |-> Pushed(st),
              current_question |-> [question_number |-> ToInt(q_match.group1),
                                    content |-> << >>,
                                    options |-> EmptyDict],
              current_text_buffer |-> IF Len(Strip(q_match.group2)) > 0
                                      THEN <<Strip(q_match.group2)>> ELSE << >>,
              active_option_letter |-> None,
              current_state |-> PARSING_QUESTION_CONTENT]
        ELSE IF opt_match.matched /\ st.current_question # NoQuestion
        THEN LET committed ==
                     IF st.current_state = PARSING_QUESTION_CONTENT
                     THEN commit_buffer(st.current_text_buffer, st.current_question,
                                        "content", None)
                     ELSE IF st.current_state = PARSING_OPTION_TEXT
                             /\ st.active_option_letter # None
                     THEN commit_buffer(st.current_text_buffer, st.current_question,
                                        "options", st.active_option_letter)
                     ELSE st.current_question
                 letter == normalized_letter(opt_match.letter)
             IN  [questions_data |-> st.questions_data,
                  current_question |->
                      IF letter \notin DOMAIN committed.options
                      THEN [committed EXCEPT !.options = DictPut(@, letter, << >>)]
                      ELSE committed,
                  current_text_buffer |-> IF Len(Strip(opt_match.group3)) > 0
                                          THEN <<Strip(opt_match.group3)>> ELSE << >>,
                  active_option_letter |-> letter,
                  current_state |-> PARSING_OPTION_TEXT]
        ELSE IF st.current_question # NoQuestion
        THEN [st EXCEPT !.current_text_buffer =
                 IF /\ Len(line_stripped) > 0
                    /\ st.current_state \in {PARSING_QUESTION_CONTENT,
                                             PARSING_OPTION_TEXT}
                 THEN Append(@, line_stripped) ELSE @]
        ELSE st

\* lines 165-243: the scanner after the for loop over the lines
RECURSIVE ScanLines(_, _)
ScanLines(lines, mode) ==
    IF Len(lines) = 0 THEN ScannerStart
    ELSE ScannerStep(ScanLines(SubSeq(lines, 1, Len(lines) - 1), mode),
                     lines[Len(lines)], mode)

\* lines 141-283: the list returned for the lines of a text
parse_questions_from_pdf_text(lines, mode) == Pushed(ScanLines(lines, mode))

-----------------------------------------------------------------------------
(* A prepared booklet: the text written out from known question records *)

DigitChar(n) ==
    CASE n = 0 -> "0" [] n = 1 -> "1" [] n = 2 -> "2" [] n = 3 -> "3" [] n = 4 -> "4"

\* str(n)
RECURSIVE NumStr(_)
NumStr(n) == IF n < 10 THEN <<DigitChar(n)>> ELSE NumStr(n \div 10) \o <<DigitChar(n % 10)>>

\* str.splitlines() of a text without a trailing newline
RECURSIVE SplitLines(_)
SplitLines(text) ==
    IF \E i \in 1..Len(text) : text[i] = "NL"
    THEN LET i == CHOOSE j \in 1..Len(text) :
                     text[j] = "NL" /\ \A k \in 1..(j - 1) : text[k] # "NL"
         IN  <<SubSeq(text, 1, i - 1)>> \o SplitLines(SubSeq(text, i + 1, Len(text)))
    ELSE <<text>>

\* the marker written before an option's text
OptionMarker(style, letter) ==
    IF style = "paren" THEN <<"(", letter, ")", " ">> ELSE <<letter, ".", " ">>

\* the lines of one question: "N. stem", then an "(A) text" or "A. text" per option
RenderQuestion(q, style) ==
    LET stem == SplitLines(q.content)
        optA == SplitLines(q.options["A"])
        optB == SplitLines(q.options["B"])
    IN  <<NumStr(q.question_number) \o <<".", " ">> \o stem[1]>> \o Tail(stem)
        \o <<OptionMarker(style, "A") \o optA[1]>> \o Tail(optA)
        \o <<OptionMarker(style, "B") \o optB[1]>> \o Tail(optB)

RECURSIVE RenderBooklet(_, _)
RenderBooklet(qs, style) ==
    IF Len(qs) = 0 THEN << >>
    ELSE RenderQuestion(qs[1], style) \o RenderBooklet(Tail(qs), style)

\* stems and option texts of one or two lines; a stem may open with a digit
BookletBodies ==
    { [content |-> <<"x">>,
       options |-> [k \in {"A", "B"} |-> <<"y">>]],
      [content |-> <<"2", "x", "NL", "y", " ", "x">>,
       options |-> [k \in {"A", "B"} |-> IF k = "A" THEN <<"y", "NL", "x">> ELSE <<"y">>]],
      [content |-> <<"x", " ", "y">>,
       options |-> [k \in {"A", "B"} |-> IF k = "A" THEN <<"x">> ELSE <<"y", "NL", "x">>]] }

BookletQuestions ==
    { [question_number |-> n, content |-> b.content, options |-> b.options] :
         n \in 1..MaxBooklet, b \in BookletBodies }

\* up to MaxBooklet questions with pairwise distinct numbers
Booklets ==
    { qs \in UNION { [1..k -> BookletQuestions] : k \in 1..MaxBooklet } :
         \A i, j \in 1..Len(qs) :
            i # j => qs[i].question_number # qs[j].question_number }

\* the scanner takes the next line of the prepared text
ScanBookletLine ==
    /\ booklet # << >>
    /\ ScanLine(Head(booklet))
    /\ booklet' = Tail(booklet)

\* the prepared text is one page: no page break
OpenBooklet ==
    /\ pc = "open"
    /\ OpenPage

\* the document ends after its one page
CloseBooklet ==
    /\ pc = "paged"
    /\ CloseDoc

InitRT ==
    /\ pc = "open"
    /\ parsing_mode \in {"default", "strict_start"}
    /\ doc = << >>
    /\ built_from \in Booklets
    /\ \E style \in {"paren", "dot"} : booklet = RenderBooklet(built_from, style)
    /\ questions_data = << >>
    /\ current_question = NoQuestion
    /\ current_text_buffer = << >>
    /\ active_option_letter = None
    /\ current_state = EXPECTING_QUESTION
    /\ all_parsed_questions_data = << >>
    /\ AnswersIdle
    /\ RestIdle

NextRT ==
    \/ OpenBooklet
    \/ ScanBookletLine
    \/ EndOfText
    \/ CloseBooklet

\* a booklet written out from question records and parsed back
SpecRT == InitRT /\ [][NextRT]_vars

-----------------------------------------------------------------------------
(* parse_answers_from_pdf_text, first part: the answer grid from positioned words *)

\* answer pages of one answer booklet
MaxAnswerPages == 1

\* line 312
Y_GROUPING_TOLERANCE == 5
\* line 391: an answer row pairs with a question row less than 40 units above it
RowWindow == 40
\* line 411: an answer pairs with a number less than 25 units to its side
XThreshold == 25

\* the question booklet's side while only the answer booklet is parsed
QuestionsIdle ==
    /\ pc = "idle"
    /\ parsing_mode = "default"
    /\ doc = << >>
    /\ booklet = << >>
    /\ built_from = << >>
    /\ questions_data = << >>
    /\ current_question = NoQuestion
    /\ current_text_buffer = << >>
    /\ active_option_letter = None
    /\ current_state = EXPECTING_QUESTION
    /\ all_parsed_questions_data = << >>

\* a word of page.get_text("words"): (x0, y0, x1, y1, text, ...)
Word(t, left, right, top) == [text |-> t, x0 |-> left, x1 |-> right, y0 |-> top]

\* the words an answer page is made of: a question-number row "題號 1 2 3" at
\* y=100 with the answers A B C under it at y=110 (D, printed a little lower,
\* sits 17 units left of column 2), and a second answer row at y=125
WordPool ==
    { Word(<<"TI", "HAO">>, 10, 40, 100),
      Word(<<"1">>, 100, 110, 100),
      Word(<<"2">>, 150, 160, 100),
      Word(<<"3">>, 200, 210, 100),
      Word(<<"DA", "AN">>, 10, 40, 110),
      Word(<<"A">>, 100, 110, 110),
      Word(<<"B">>, 150, 160, 110),
      Word(<<"C">>, 200, 210, 110),
      Word(<<"D">>, 133, 143, 113),
      Word(<<"DA", "AN">>, 10, 40, 125),
      Word(<<"FW_D">>, 100, 110, 125) }

\* words.sort(key=lambda w: (w[1], w[0]))  (no two pool words share top and left)
Before(v, w) == v.y0 < w.y0 \/ (v.y0 = w.y0 /\ v.x0 < w.x0)
RECURSIVE SortWords(_)
SortWords(ws) ==
    IF ws = {} THEN << >>
    ELSE LET first == CHOOSE w \in ws : \A v \in ws \ {w} : Before(w, v)
         IN  <<first>> \o SortWords(ws \ {first})

\* current_line_buffer.sort(key=lambda w: w[0]): stable, earlier words first on ties
RECURSIVE SortByLeft(_)
SortByLeft(buf) ==
    IF Len(buf) = 0 THEN << >>
    ELSE LET i == CHOOSE k \in 1..Len(buf) :
                     \A m \in 1..Len(buf) :
                        buf[k].x0 < buf[m].x0 \/ (buf[k].x0 = buf[m].x0 /\ k <= m)
             rest == [m \in 1..(Len(buf) - 1) |-> IF m < i THEN buf[m] ELSE buf[m + 1]]
         IN  <<buf[i]>> \o SortByLeft(rest)

\* " ".join(w[4] for w in current_line_buffer)
RECURSIVE JoinWords(_)
JoinWords(buf) ==
    IF Len(buf) = 0 THEN << >>
    ELSE IF Len(buf) = 1 THEN buf[1].text
    ELSE buf[1].text \o <<" ">> \o JoinWords(Tail(buf))

\* lines 326-330, 334-339: the buffered words become a visual line
StructuredLine(buf) ==
    [y0 |-> SortByLeft(buf)[1].y0, words |-> SortByLeft(buf), text |-> JoinWords(SortByLeft(buf))]

Abs(n) == IF n < 0 THEN -n ELSE n

\* lines 309-339: the sorted words grouped into visual lines
RECURSIVE GroupLines(_, _, _)
GroupLines(ws, current_line_buffer, structured_lines) ==
    IF Len(ws) = 0
    THEN IF Len(current_line_buffer) > 0
         THEN Append(structured_lines, StructuredLine(current_line_buffer))
         ELSE structured_lines
    ELSE IF Len(current_line_buffer) = 0
    THEN GroupLines(Tail(ws), <<ws[1]>>, structured_lines)
    ELSE IF Abs(ws[1].y0 - current_line_buffer[1].y0) < Y_GROUPING_TOLERANCE
    THEN GroupLines(Tail(ws), Append(current_line_buffer, ws[1]), structured_lines)
    ELSE GroupLines(Tail(ws), <<ws[1]>>,
                    Append(structured_lines, StructuredLine(current_line_buffer)))

\* w occurs in t: Python's  w in t
At(t, i, w) == i + Len(w) - 1 <= Len(t) /\ SubSeq(t, i, i + Len(w) - 1) = w
Contains(t, w) == \E i \in 1..Len(t) : At(t, i, w)

\* str.isdigit()
IsDigitWord(t) == Len(t) > 0 /\ \A i \in 1..Len(t) : IsDigit(t[i])

\* [A-ZＡ-Ｚ#＃]
IsAnswerChar(c) == c \in HalfWidthUpper \cup FullWidthUpper \cup {"#", "FWHASH"}

\* normalize_full_width_alpha: full-width Latin letters become half-width
normalize_full_width_alpha(text) ==
    [i \in 1..Len(text) |->
        CASE text[i] = "FW_A" -> "A"
          [] text[i] = "FW_B" -> "B"
          [] text[i] = "FW_C" -> "C"
          [] text[i] = "FW_D" -> "D"
          [] OTHER -> text[i]]

\* line 347: the line is a question-number row
IsQuestionNumberLine(line_obj) ==
    /\ Contains(line_obj.text, <<"TI", "HAO">>) \/ Contains(line_obj.text, <<"XU">>)
    /\ \E i \in 1..Len(line_obj.text) : IsDigit(line_obj.text[i])

\* line 355: the line is an answer row
IsAnswerLine(line_obj) ==
    /\ Contains(line_obj.text, <<"DA", "AN">>)
    /\ \E i \in 1..Len(line_obj.text) : IsAnswerChar(line_obj.text[i])

\* lines 348-351: the digit words of the row, with twice their horizontal midpoint
\* (x_mid = (x0 + x1) / 2 is kept doubled, so that it stays an integer)
QNumberOf(w) == [text |-> w.text, x_mid2 |-> w.x0 + w.x1, y0 |-> w.y0]
RECURSIVE QNumbersIn(_)
QNumbersIn(ws) ==
    IF Len(ws) = 0 THEN << >>
    ELSE (IF IsDigitWord(ws[1].text) THEN <<QNumberOf(ws[1])>> ELSE << >>)
         \o QNumbersIn(Tail(ws))
current_q_numbers(line_obj) == QNumbersIn(line_obj.words)

\* lines 358-367: the answer character a word of an answer row holds, or None
ans_char_to_add(w) ==
    LET word_text_stripped == Strip(w.text)
    IN  IF Len(word_text_stripped) = 1 /\ IsAnswerChar(word_text_stripped[1])
        THEN word_text_stripped
        ELSE IF /\ At(word_text_stripped, 1, <<"DA", "AN">>)
                /\ Len(word_text_stripped) = 3
                /\ IsAnswerChar(word_text_stripped[3])
        THEN <<word_text_stripped[3]>>
        ELSE Nothing

\* lines 369-375
AnswerOf(w) == [text |-> normalize_full_width_alpha(ans_char_to_add(w)),
                x_mid2 |-> w.x0 + w.x1, y0 |-> w.y0]
RECURSIVE AnswersIn(_)
AnswersIn(ws) ==
    IF Len(ws) = 0 THEN << >>
    ELSE (IF ans_char_to_add(ws[1]) # Nothing THEN <<AnswerOf(ws[1])>> ELSE << >>)
         \o AnswersIn(Tail(ws))
current_answers(line_obj) == AnswersIn(line_obj.words)

\* lines 344-353: q_num_rows_data of the page
RECURSIVE QNumRows(_, _)
QNumRows(structured_lines, i) ==
    IF i > Len(structured_lines) THEN << >>
    ELSE (IF /\ IsQuestionNumberLine(structured_lines[i])
             /\ Len(current_q_numbers(structured_lines[i])) > 0
          THEN <<[index |-> i, q_numbers |-> current_q_numbers(structured_lines[i]),
                  y0 |-> structured_lines[i].y0]>>
          ELSE << >>) \o QNumRows(structured_lines, i + 1)

\* lines 355-380: ans_rows_data of the page
RECURSIVE AnsRows(_, _)
AnsRows(structured_lines, i) ==
    IF i > Len(structured_lines) THEN << >>
    ELSE (IF /\ ~IsQuestionNumberLine(structured_lines[i])
             /\ IsAnswerLine(structured_lines[i])
             /\ Len(current_answers(structured_lines[i])) > 0
          THEN <<[index |-> i, answers |-> current_answers(structured_lines[i]),
                  y0 |-> structured_lines[i].y0]>>
          ELSE << >>) \o AnsRows(structured_lines, i + 1)

\* the answer row for a question row, rows already taken included
RECURSIVE BestCandidateAmongAll(_, _, _, _, _)
BestCandidateAmongAll(q_row_data, rows, processed, best, min_y_diff) ==
    IF Len(rows) = 0 THEN best
    ELSE LET a_row_data == rows[1]
             y_diff == a_row_data.y0 - q_row_data.y0
         IN  IF /\ a_row_data.index > q_row_data.index
                /\ 0 < y_diff /\ y_diff < RowWindow
                /\ (best = Nothing \/ y_diff < min_y_diff)
             THEN BestCandidateAmongAll(q_row_data, Tail(rows), processed,
                                        Some(a_row_data), y_diff)
             ELSE BestCandidateAmongAll(q_row_data, Tail(rows), processed, best,
                                        min_y_diff)

\* lines 385-394: the answer row for a question row: the nearest one below it that
\* is not taken, less than RowWindow units down; None when there is none
RECURSIVE BestCandidate(_, _, _, _, _)
BestCandidate(q_row_data, rows, processed, best, min_y_diff) ==
    IF Len(rows) = 0 THEN best
    ELSE LET a_row_data == rows[1]
             y_diff == a_row_data.y0 - q_row_data.y0
         IN  IF /\ a_row_data.index > q_row_data.index
                /\ a_row_data.index \notin processed
                /\ 0 < y_diff /\ y_diff < RowWindow
                /\ (best = Nothing \/ y_diff < min_y_diff)
             THEN BestCandidate(q_row_data, Tail(rows), processed, Some(a_row_data), y_diff)
             ELSE BestCandidate(q_row_data, Tail(rows), processed, best, min_y_diff)

\* the answer for a number: the first entry of the paired row that is less than
\* XThreshold units away
RECURSIVE BestAnswerFirstInReach(_, _, _, _)
BestAnswerFirstInReach(q_x2, entries, best_ans_for_q, min_x_dist2) ==
    IF Len(entries) = 0 THEN best_ans_for_q
    ELSE LET x_dist2 == Abs(q_x2 - entries[1].x_mid2)
         IN  IF best_ans_for_q = Nothing /\ x_dist2 < 2 * XThreshold
             THEN BestAnswerFirstInReach(q_x2, Tail(entries), entries[1].text, x_dist2)
             ELSE BestAnswerFirstInReach(q_x2, Tail(entries), best_ans_for_q, min_x_dist2)

\* lines 403-413: the answer for a number: the closest entry of the paired row,
\* less than XThreshold units away; None when there is none
RECURSIVE BestAnswer(_, _, _, _)
BestAnswer(q_x2, entries, best_ans_for_q, min_x_dist2) ==
    IF Len(entries) = 0 THEN best_ans_for_q
    ELSE LET x_dist2 == Abs(q_x2 - entries[1].x_mid2)
         IN  IF /\ (best_ans_for_q = Nothing \/ x_dist2 < min_x_dist2)
                /\ x_dist2 < 2 * XThreshold
             THEN BestAnswer(q_x2, Tail(entries), entries[1].text, x_dist2)
             ELSE BestAnswer(q_x2, Tail(entries), best_ans_for_q, min_x_dist2)

\* the entry the grid records for a number, empty when no answer is in reach
GridAnswerLeavingEmpty(best_ans_for_q) ==
    IF best_ans_for_q # Nothing THEN <<best_ans_for_q>> ELSE << >>

\* lines 415-419: the entry the grid records for a number
GridAnswer(best_ans_for_q) ==
    IF best_ans_for_q # Nothing THEN <<best_ans_for_q>> ELSE << <<"#">> >>

\* the page's question-number row being paired, and the entry being resolved
CurrentQRow == q_num_rows_data[q_row_i]
CurrentEntry == CurrentQRow.q_numbers[q_idx]

\* the variables of the erratum and merge parts
noteVars == <<note_text, notes, grid_answers>>
mergeVars == <<questions, answers_map, notes_map, combined_data>>

\* lines 300-380: the next page's words are read, grouped into lines and classified
ReadAnswerPage ==
    /\ apc = "page"
    /\ pages_read < MaxAnswerPages
    /\ \E ws \in SUBSET WordPool :
          LET structured_lines == GroupLines(SortWords(ws), << >>, << >>)
          IN  /\ words' = SortWords(ws)
              /\ q_num_rows_data' = QNumRows(structured_lines, 1)
              /\ ans_rows_data' = AnsRows(structured_lines, 1)
    /\ processed_ans_row_indices' = {}
    /\ q_row_i' = 1
    /\ best_candidate_ans_row' = Nothing
    /\ q_idx' = 0
    /\ pages_read' = pages_read + 1
    /\ apc' = "rows"
    /\ UNCHANGED <<answers, noteVars, mergeVars, segVars, restVars>>

\* lines 384-397: the question-number row finds its answer row
PairRow ==
    /\ apc = "rows"
    /\ q_row_i <= Len(q_num_rows_data)
    /\ LET found == BestCandidate(CurrentQRow, ans_rows_data,
                                  processed_ans_row_indices, Nothing, 0)
       IN  /\ found # Nothing
           /\ best_candidate_ans_row' = found
           /\ processed_ans_row_indices' = processed_ans_row_indices \cup {found[1].index}
    /\ q_idx' = 1
    /\ apc' = "entries"
    /\ UNCHANGED <<pages_read, words, q_num_rows_data, ans_rows_data, q_row_i,
                   answers, noteVars, mergeVars, segVars, restVars>>

\* lines 384-396: no answer row is in reach; the loop goes on to the next row
RowUnpaired ==
    /\ apc = "rows"
    /\ q_row_i <= Len(q_num_rows_data)
    /\ BestCandidate(CurrentQRow, ans_rows_data, processed_ans_row_indices, Nothing, 0)
         = Nothing
    /\ q_row_i' = q_row_i + 1
    /\ UNCHANGED <<apc, pages_read, words, q_num_rows_data, ans_rows_data,
                   processed_ans_row_indices, best_candidate_ans_row, q_idx,
                   answers, noteVars, mergeVars, segVars, restVars>>

\* lines 399-420: one number of the row gets its answer
PairEntry ==
    /\ apc = "entries"
    /\ q_idx <= Len(CurrentQRow.q_numbers)
    /\ LET best_ans_for_q == BestAnswer(CurrentEntry.x_mid2,
                                        best_candidate_ans_row[1].answers, Nothing, 0)
           q_num_int == ToInt(CurrentEntry.text)
       IN  answers' = DictPut(answers, q_num_int, GridAnswer(best_ans_for_q))
    /\ q_idx' = q_idx + 1
    /\ UNCHANGED <<apc, pages_read, words, q_num_rows_data, ans_rows_data,
                   processed_ans_row_indices, best_candidate_ans_row, q_row_i,
                   noteVars, mergeVars, segVars, restVars>>

\* line 399: the row's numbers are used up
RowDone ==
    /\ apc = "entries"
    /\ q_idx > Len(CurrentQRow.q_numbers)
    /\ q_row_i' = q_row_i + 1
    /\ q_idx' = 0
    /\ best_candidate_ans_row' = Nothing
    /\ apc' = "rows"
    /\ UNCHANGED <<pages_read, words, q_num_rows_data, ans_rows_data,
                   processed_ans_row_indices, answers, noteVars, mergeVars, segVars, restVars>>

\* line 384: the page's rows are used up; the page's own data goes out of use
PageDone ==
    /\ apc = "rows"
    /\ q_row_i > Len(q_num_rows_data)
    /\ words' = << >>
    /\ q_num_rows_data' = << >>
    /\ ans_rows_data' = << >>
    /\ processed_ans_row_indices' = {}
    /\ q_row_i' = 0
    /\ apc' = "page"
    /\ UNCHANGED <<pages_read, best_candidate_ans_row, q_idx, answers,
                   noteVars, mergeVars, segVars, restVars>>

-----------------------------------------------------------------------------
(* parse_answers_from_pdf_text, second part: the erratum block *)

\* sentences of one erratum text
MaxSentences == 2

\* the character of s at i, and a mark past its end
CharAt(s, i) == IF i >= 1 /\ i <= Len(s) THEN s[i] ELSE "EOT"

ANSWER_WORD == <<"DA", "AN">>                   \* 答案
OPTION_WORD == <<"XUAN", "XIANG">>              \* 選項
CORRECTED_TO == <<"GENG", "ZHENG", "WEI">>      \* 更正為
SHOULD_BE == <<"YING", "WEI">>                  \* 應為
SONG_FEN == <<"SONG", "FEN">>                   \* 送分
JUN_GEI_FEN == <<"JUN", "GEI", "FEN">>          \* 均給分
JIE_GEI_FEN == <<"JIE", "GEI", "FEN">>          \* 皆給分
GEI_FEN == <<"GEI", "FEN">>                     \* 給分

\* [，,，]
Commas == {"FWCOMMA", ","}
\* [，,，、及和與]
SingleSeparators == {"FWCOMMA", ",", "DUN", "JI", "HE", "YU"}
\* [、,及和與]
ListSeparators == {"DUN", ",", "JI", "HE", "YU"}
\* [A-D#＃]
CorrectionChars == {"A", "B", "C", "D", "#", "FWHASH"}

\* 送分|均給分|皆給分|給分 at i: the alternative that matches, or the empty string
CreditWordAt(t, i) ==
    IF At(t, i, SONG_FEN) THEN SONG_FEN
    ELSE IF At(t, i, JUN_GEI_FEN) THEN JUN_GEI_FEN
    ELSE IF At(t, i, JIE_GEI_FEN) THEN JIE_GEI_FEN
    ELSE IF At(t, i, GEI_FEN) THEN GEI_FEN
    ELSE << >>

\* .*?。 from i: the index of the first 。 at or after i on the same line, 0 if none
RECURSIVE FullStopFrom(_, _)
FullStopFrom(t, i) ==
    IF i > Len(t) \/ t[i] = "NL" THEN 0
    ELSE IF t[i] = "JU" THEN i
    ELSE FullStopFrom(t, i + 1)

\* first index >= i of t that holds no character of class
RECURSIVE SkipClass(_, _, _)
SkipClass(t, i, class) ==
    IF CharAt(t, i) \in class THEN SkipClass(t, i + 1, class) ELSE i

\* 第(\d+)題 at i
NumberedAt(t, i) ==
    /\ CharAt(t, i) = "DI"
    /\ SkipDigits(t, i + 1) > i + 1
    /\ CharAt(t, SkipDigits(t, i + 1)) = "TI"

\* (?:答案|選項)?(?:更正為|應為)?([A-D#＃])(?:.*?)。 at p
CorrectionAt(t, p) ==
    LET o1 == IF At(t, p, ANSWER_WORD) \/ At(t, p, OPTION_WORD) THEN p + 2 ELSE p
        o2 == IF At(t, o1, CORRECTED_TO) THEN o1 + 3
              ELSE IF At(t, o1, SHOULD_BE) THEN o1 + 2
              ELSE o1
        stop == FullStopFrom(t, o2 + 1)
    IN  IF CharAt(t, o2) \in CorrectionChars /\ stop # 0
        THEN [matched |-> TRUE, at |-> o2, end |-> stop + 1]
        ELSE NoMatch

\* line 432: 第(\d+)題[，,，、及和與]*(?:答案|選項)?(?:更正為|應為)?([A-D#＃])(?:.*?)。 at i
CorrectionPattern(t, i) ==
    IF ~NumberedAt(t, i) THEN NoMatch
    ELSE LET d == SkipDigits(t, i + 1)
             c == CorrectionAt(t, SkipClass(t, d + 1, SingleSeparators))
         IN  IF c.matched
             THEN [matched |-> TRUE, end |-> c.end,
                   g1 |-> SubSeq(t, i + 1, d - 1), g2 |-> <<t[c.at]>>, g3 |-> << >>]
             ELSE NoMatch

\* line 439: 第(\d+)題[，,，]?(送分|均給分|皆給分|給分) at i
CreditPattern(t, i) ==
    IF ~NumberedAt(t, i) THEN NoMatch
    ELSE LET d == SkipDigits(t, i + 1)
             p == IF CharAt(t, d + 1) \in Commas /\ CreditWordAt(t, d + 2) # << >>
                  THEN d + 2 ELSE d + 1
         IN  IF CreditWordAt(t, p) # << >>
             THEN [matched |-> TRUE, end |-> p + Len(CreditWordAt(t, p)),
                   g1 |-> SubSeq(t, i + 1, d - 1), g2 |-> CreditWordAt(t, p), g3 |-> << >>]
             ELSE NoMatch

\* (?!送分|均給分|皆給分|給分|答案更正為|選項更正為|應為)([^第].*?)。 at p
RemarkAt(t, p) ==
    /\ p <= Len(t)
    /\ CreditWordAt(t, p) = << >>
    /\ ~At(t, p, ANSWER_WORD \o CORRECTED_TO)
    /\ ~At(t, p, OPTION_WORD \o CORRECTED_TO)
    /\ ~At(t, p, SHOULD_BE)
    /\ t[p] # "DI"
    /\ FullStopFrom(t, p + 1) # 0

\* lines 444: 第(\d+)題[，,，]?(?!...)([^第].*?)。 at i; the comma is given up when
\* the rest does not match after it
RemarkPattern(t, i) ==
    IF ~NumberedAt(t, i) THEN NoMatch
    ELSE LET d == SkipDigits(t, i + 1)
             p == IF CharAt(t, d + 1) \in Commas /\ RemarkAt(t, d + 2)
                  THEN d + 2 ELSE d + 1
         IN  IF RemarkAt(t, p)
             THEN [matched |-> TRUE, end |-> FullStopFrom(t, p + 1) + 1,
                   g1 |-> SubSeq(t, i + 1, d - 1),
                   g2 |-> SubSeq(t, p, FullStopFrom(t, p + 1) - 1), g3 |-> << >>]
             ELSE NoMatch

\* (?:[、,及和與]\d+)* from i: the index after the last listed number
RECURSIVE NumberListEnd(_, _)
NumberListEnd(t, i) ==
    IF CharAt(t, i) \in ListSeparators /\ SkipDigits(t, i + 1) > i + 1
    THEN NumberListEnd(t, SkipDigits(t, i + 1))
    ELSE i

\* line 450: multi_q_note_pattern at i
multi_q_note_pattern(t, i) ==
    IF ~(CharAt(t, i) = "DI" /\ SkipDigits(t, i + 1) > i + 1) THEN NoMatch
    ELSE LET k == NumberListEnd(t, SkipDigits(t, i + 1))
             p0 == k + 1
             p1 == IF CharAt(t, p0) = "DENG" THEN p0 + 1
                   ELSE IF At(t, p0, <<"GE", "TI">>) THEN p0 + 2
                   ELSE p0
             p2 == IF CharAt(t, p1) \in Commas THEN p1 + 1 ELSE p1
             w == CreditWordAt(t, p2)
             c == CorrectionAt(t, p2)
         IN  IF CharAt(t, k) # "TI" THEN NoMatch
             ELSE IF w # << >> /\ FullStopFrom(t, p2 + Len(w)) # 0
             THEN [matched |-> TRUE, end |-> FullStopFrom(t, p2 + Len(w)) + 1,
                   g1 |-> SubSeq(t, i + 1, k - 1), g2 |-> w, g3 |-> << >>]
             ELSE IF w = << >> /\ c.matched
             THEN [matched |-> TRUE, end |-> c.end,
                   g1 |-> SubSeq(t, i + 1, k - 1), g2 |-> SubSeq(t, p2, c.at),
                   g3 |-> <<t[c.at]>>]
             ELSE NoMatch

\* the four patterns by name
MatchAt(pattern, t, i) ==
    CASE pattern = "a" -> CorrectionPattern(t, i)
      [] pattern = "b" -> CreditPattern(t, i)
      [] pattern = "c" -> RemarkPattern(t, i)
      [] pattern = "d" -> multi_q_note_pattern(t, i)

\* re.finditer(pattern, t): the matches from left to right, none overlapping
RECURSIVE finditer(_, _, _)
finditer(pattern, t, pos) ==
    IF pos > Len(t) THEN << >>
    ELSE IF MatchAt(pattern, t, pos).matched
    THEN <<MatchAt(pattern, t, pos)>> \o finditer(pattern, t, MatchAt(pattern, t, pos).end)
    ELSE finditer(pattern, t, pos + 1)

\* line 453, re.findall(r"\d+", q_numbers_str) of a number list: only its first number
RECURSIVE FirstNumberOnly(_)
FirstNumberOnly(q_numbers_str) ==
    IF Len(q_numbers_str) = 0 THEN << >>
    ELSE IF ~IsDigit(q_numbers_str[1]) THEN FirstNumberOnly(Tail(q_numbers_str))
    ELSE <<ToInt(SubSeq(q_numbers_str, 1, SkipDigits(q_numbers_str, 1) - 1))>>

\* line 453: [int(qn_str) for qn_str in re.findall(r"\d+", q_numbers_str)]
RECURSIVE q_nums(_)
q_nums(q_numbers_str) ==
    IF Len(q_numbers_str) = 0 THEN << >>
    ELSE IF ~IsDigit(q_numbers_str[1]) THEN q_nums(Tail(q_numbers_str))
    ELSE <<ToInt(SubSeq(q_numbers_str, 1, SkipDigits(q_numbers_str, 1) - 1))>>
         \o q_nums(SubSeq(q_numbers_str, SkipDigits(q_numbers_str, 1), Len(q_numbers_str)))

\* f"答案更正為 {x}"
CorrectionNote(x) == ANSWER_WORD \o CORRECTED_TO \o <<" ">> \o x

\* the answers and the notes as one value
Maps(a, n) == [answers |-> a, notes |-> n]

\* notes[qn] = note; answers[qn] = ans -- but a question the grid answered keeps
\* its grid answer
SetNoteKeepingGridAnswer(st, qn, note, ans) ==
    Maps(IF qn \in DOMAIN st.answers THEN st.answers ELSE DictPut(st.answers, qn, ans),
         DictPut(st.notes, qn, note))

\* lines 436-437, 441-442, 471-472: notes[qn] = note; answers[qn] = ans
SetNoteAndAnswer(st, qn, note, ans) ==
    Maps(DictPut(st.answers, qn, ans), DictPut(st.notes, qn, note))

\* lines 432-437: the effect of the matches of pattern a, in order
RECURSIVE ApplyCorrections(_, _)
ApplyCorrections(ms, st) ==
    IF Len(ms) = 0 THEN st
    ELSE LET normalized_corrected_ans == normalize_full_width_alpha(ms[1].g2)
         IN  ApplyCorrections(Tail(ms),
                 SetNoteAndAnswer(st, ToInt(ms[1].g1),
                                  CorrectionNote(normalized_corrected_ans),
                                  <<normalized_corrected_ans>>))

\* lines 439-442: the effect of the matches of pattern b
RECURSIVE ApplyCredits(_, _)
ApplyCredits(ms, st) ==
    IF Len(ms) = 0 THEN st
    ELSE ApplyCredits(Tail(ms), SetNoteAndAnswer(st, ToInt(ms[1].g1), SONG_FEN, <<SONG_FEN>>))

\* the free-text notes, but a note replaces the one a number has
RECURSIVE ApplyRemarksReplacing(_, _)
ApplyRemarksReplacing(ms, st) ==
    IF Len(ms) = 0 THEN st
    ELSE LET qn == ToInt(ms[1].g1)
             note_content == Strip(ms[1].g2)
         IN  ApplyRemarksReplacing(Tail(ms),
                 Maps(st.answers, DictPut(st.notes, qn, note_content)))

\* lines 444-448: the effect of the matches of pattern c
RECURSIVE ApplyRemarks(_, _)
ApplyRemarks(ms, st) ==
    IF Len(ms) = 0 THEN st
    ELSE LET qn == ToInt(ms[1].g1)
             note_content == Strip(ms[1].g2)
         IN  ApplyRemarks(Tail(ms),
                 IF qn \notin DOMAIN st.notes
                 THEN Maps(st.answers, DictPut(st.notes, qn, note_content))
                 ELSE st)

\* lines 458-467, but a corrected answer is not taken over
MultiEffectDroppingCorrection(m) ==
    IF m.g3 # << >>
    THEN [actual_note |-> CorrectionNote(normalize_full_width_alpha(m.g3)),
          ans_to_set |-> << <<"#">> >>]
    ELSE IF m.g2 = SONG_FEN \/ Contains(m.g2, GEI_FEN)
    THEN [actual_note |-> SONG_FEN, ans_to_set |-> <<SONG_FEN>>]
    ELSE [actual_note |-> << >>, ans_to_set |-> << <<"#">> >>]

\* lines 458-467: the note and the answer a match of the multi-question pattern sets
MultiEffect(m) ==
    IF m.g3 # << >>
    THEN [actual_note |-> CorrectionNote(normalize_full_width_alpha(m.g3)),
          ans_to_set |-> <<normalize_full_width_alpha(m.g3)>>]
    ELSE IF m.g2 = SONG_FEN \/ Contains(m.g2, GEI_FEN)
    THEN [actual_note |-> SONG_FEN, ans_to_set |-> <<SONG_FEN>>]
    ELSE [actual_note |-> << >>, ans_to_set |-> << <<"#">> >>]

\* lines 469-472: for qn in q_nums
RECURSIVE SetAll(_, _, _, _)
SetAll(nums, st, note, ans) ==
    IF Len(nums) = 0 THEN st
    ELSE SetAll(Tail(nums), SetNoteAndAnswer(st, nums[1], note, ans), note, ans)

\* lines 451-472: the effect of the matches of the multi-question pattern
RECURSIVE ApplyMulti(_, _)
ApplyMulti(ms, st) ==
    IF Len(ms) = 0 THEN st
    ELSE ApplyMulti(Tail(ms),
             IF MultiEffect(ms[1]).actual_note # << >>
             THEN SetAll(q_nums(ms[1].g1), st, MultiEffect(ms[1]).actual_note,
                         MultiEffect(ms[1]).ans_to_set)
             ELSE st)

\* ^\s*備\s*註 on a stripped line
IsNoteHeader(line) ==
    CharAt(line, 1) = "BEI" /\ CharAt(line, SkipSpace(line, 2)) = "ZHU"

\* line 428: the stripped lines of the text that are not empty
RECURSIVE StripLines(_)
StripLines(ls) ==
    IF Len(ls) = 0 THEN << >>
    ELSE (IF Len(Strip(ls[1])) > 0 THEN <<Strip(ls[1])>> ELSE << >>) \o StripLines(Tail(ls))
note_lines(full_raw_text_for_notes) == StripLines(SplitLines(full_raw_text_for_notes))

\* lines 429-431: the text from the first header line on; Nothing without a header
NoteBlock(ls) ==
    IF \E j \in 1..Len(ls) : IsNoteHeader(ls[j])
    THEN LET j == CHOOSE k \in 1..Len(ls) :
                     IsNoteHeader(ls[k]) /\ \A m \in 1..(k - 1) : ~IsNoteHeader(ls[m])
         IN  JoinLines(SubSeq(ls, j, Len(ls)))
    ELSE Nothing

\* the sentences an erratum text is made of
Sentence(t, ns, k, x) == [text |-> t, names |-> ns, kind |-> k, letter |-> x]
Numbered(n) == <<"DI">> \o NumStr(n) \o <<"TI">>
ErratumSentences ==
    { \* 第1題答案更正為C。
      Sentence(Numbered(1) \o ANSWER_WORD \o CORRECTED_TO \o <<"C", "JU">>,
               {1}, "correction", <<"C">>),
      \* 第3題答案更正為Ａ。
      Sentence(Numbered(3) \o ANSWER_WORD \o CORRECTED_TO \o <<"FW_A", "JU">>,
               {3}, "correction", <<"FW_A">>),
      \* 第1題，送分。
      Sentence(Numbered(1) \o <<"FWCOMMA">> \o SONG_FEN \o <<"JU">>, {1}, "credit", << >>),
      \* 第2、3題均給分。
      Sentence(<<"DI", "2", "DUN", "3", "TI">> \o JUN_GEI_FEN \o <<"JU">>,
               {2, 3}, "credit", << >>),
      \* 第1、2題應為B。
      Sentence(<<"DI", "1", "DUN", "2", "TI">> \o SHOULD_BE \o <<"B", "JU">>,
               {1, 2}, "correction", <<"B">>),
      \* 第3題，x。
      Sentence(Numbered(3) \o <<"FWCOMMA", "x", "JU">>, {3}, "remark", << >>) }

\* sequences of at most n sentences
RECURSIVE SentenceSeqs(_)
SentenceSeqs(n) ==
    IF n = 0 THEN {<< >>}
    ELSE SentenceSeqs(n - 1) \cup
         {Append(ss, x) : ss \in {r \in SentenceSeqs(n - 1) : Len(r) = n - 1},
                          x \in ErratumSentences}

RECURSIVE Concat(_)
Concat(ts) == IF Len(ts) = 0 THEN << >> ELSE ts[1] \o Concat(Tail(ts))

\* 備註：
NOTE_HEADER == <<"BEI", "ZHU", "COLON">>
\* the grid's text, as it comes before the notes: 題號 1
GridLine == <<"TI", "HAO", " ", "1">>

\* the text of an answer booklet: the grid's line, then the sentences, with the
\* header before them all ("first"), after the first of them ("inner") or missing
\* ("none"); what follows the header is on lines of its own ("lines") or on the
\* header's line ("inline")
Layouts ==
    {<<"none", "lines">>, <<"first", "lines">>, <<"first", "inline">>,
     <<"inner", "lines">>, <<"inner", "inline">>}

PageText(ss, header, layout) ==
    LET texts == [i \in 1..Len(ss) |-> ss[i].text]
        above == IF header = "inner" THEN <<texts[1]>> ELSE << >>
        below == (IF header = "none" THEN << >> ELSE <<NOTE_HEADER>>)
                 \o (IF header = "inner" THEN Tail(texts) ELSE texts)
    IN  JoinLines(<<GridLine>> \o above
                  \o (IF layout = "lines" THEN below ELSE <<Concat(below)>>))

\* lines 427-431: the pages are read; the text is searched for the header
FindNotes ==
    /\ apc = "page"
    /\ pages_read >= 1
    /\ \E ss \in SentenceSeqs(MaxSentences), l \in Layouts :
          /\ l[1] = "inner" => Len(ss) >= 1
          /\ note_text' = NoteBlock(note_lines(PageText(ss, l[1], l[2])))
    /\ grid_answers' = answers
    /\ apc' = IF note_text' # Nothing THEN "a" ELSE "return"
    /\ UNCHANGED <<pages_read, words, q_num_rows_data, ans_rows_data,
                   processed_ans_row_indices, q_row_i, best_candidate_ans_row, q_idx,
                   answers, notes, mergeVars, segVars, restVars>>

\* one pass over the block: the matches of a pattern take effect
Pass(here, next, st) ==
    /\ apc = here
    /\ answers' = st.answers
    /\ notes' = st.notes
    /\ apc' = next
    /\ UNCHANGED <<pages_read, words, q_num_rows_data, ans_rows_data,
                   processed_ans_row_indices, q_row_i, best_candidate_ans_row, q_idx,
                   note_text, grid_answers, mergeVars, segVars, restVars>>

\* lines 432-437
PassA == Pass("a", "b", ApplyCorrections(finditer("a", note_text, 1), Maps(answers, notes)))
\* lines 439-442
PassB == Pass("b", "c", ApplyCredits(finditer("b", note_text, 1), Maps(answers, notes)))
\* lines 444-448
PassC == Pass("c", "d", ApplyRemarks(finditer("c", note_text, 1), Maps(answers, notes)))
\* lines 450-473
PassD == Pass("d", "return", ApplyMulti(finditer("d", note_text, 1), Maps(answers, notes)))

\* lines 475-477 and process_exam_pdfs, lines 631-656: the maps reach the merge;
\* what parse_answers_from_pdf_text kept for itself is gone
ReturnAnswers ==
    /\ apc = "return"
    /\ answers_map' = answers
    /\ notes_map' = IF DOMAIN notes # {} THEN Some(notes) ELSE Nothing
    /\ note_text' = Nothing
    /\ grid_answers' = EmptyDict
    /\ apc' = "combine"
    /\ UNCHANGED <<pages_read, words, q_num_rows_data, ans_rows_data,
                   processed_ans_row_indices, q_row_i, best_candidate_ans_row, q_idx,
                   answers, notes, questions, combined_data, segVars, restVars>>

-----------------------------------------------------------------------------
(* combine_questions_and_answers *)

\* questions of one merge
MaxQuestions == 2

\* "答案待確認"
PENDING_NOTE == <<"DA", "AN", "DAI", "QUE", "REN">>

\* a record of the question scanner
QuestionRecord(n) == [question_number |-> n, content |-> <<"x">>, options |-> EmptyDict]

\* the numbers of the questions: those of the grid's rows
QuestionNumbers == 1..3

RECURSIVE QuestionLists(_)
QuestionLists(n) ==
    IF n = 0 THEN {<< >>}
    ELSE QuestionLists(n - 1) \cup
         {Append(qs, QuestionRecord(k)) :
             qs \in {r \in QuestionLists(n - 1) : Len(r) = n - 1}, k \in QuestionNumbers}

\* lines 500-524, but a question without an answer is given ['#']
CombinedDefaultingToHash(question, am, nm) ==
    LET q_num == question.question_number
        correct_answer_key == IF q_num \in DOMAIN am THEN am[q_num] ELSE << <<"#">> >>
    IN  [question_number |-> q_num, content |-> question.content,
         options |-> question.options, correct_answer_key |-> correct_answer_key,
         notes |-> IF q_num \in DOMAIN nm THEN Some(nm[q_num]) ELSE Nothing]

\* lines 500-524, but a note of notes_map is appended to the note the merge made
CombinedAppendingNote(question, am, nm) ==
    LET q_num == question.question_number
        correct_answer_key == IF q_num \in DOMAIN am THEN am[q_num] ELSE << >>
        auto_note == IF q_num \in DOMAIN am /\ correct_answer_key = << <<"#">> >>
                     THEN Some(PENDING_NOTE) ELSE Nothing
    IN  [question_number |-> q_num, content |-> question.content,
         options |-> question.options, correct_answer_key |-> correct_answer_key,
         notes |-> IF q_num \in DOMAIN nm
                   THEN IF auto_note = Nothing THEN Some(nm[q_num])
                        ELSE Some(auto_note[1] \o <<"NL">> \o nm[q_num])
                   ELSE auto_note]

\* lines 500-524: the record of one question after the merge, the copy of the
\* question with its correct_answer_key and its notes assigned
Combined(question, am, nm) ==
    LET q_num == question.question_number
        correct_answer_key == IF q_num \in DOMAIN am THEN am[q_num] ELSE << >>
        auto_note == IF q_num \in DOMAIN am /\ correct_answer_key = << <<"#">> >>
                     THEN Some(PENDING_NOTE) ELSE Nothing
    IN  [key \in DOMAIN question \cup {"correct_answer_key", "notes"} |->
            IF key = "correct_answer_key" THEN correct_answer_key
            ELSE IF key = "notes"
            THEN IF q_num \in DOMAIN nm THEN Some(nm[q_num]) ELSE auto_note
            ELSE question[key]]

\* lines 481-526
combine_questions_and_answers(qs, am, nm) ==
    [i \in 1..Len(qs) |-> Combined(qs[i], am, IF nm = Nothing THEN EmptyDict ELSE nm[1])]

\* process_exam_pdfs, lines 670-674: the questions and the maps are merged
Combine ==
    /\ apc = "combine"
    /\ \E qs \in QuestionLists(MaxQuestions) :
          /\ questions' = qs
          /\ combined_data' = combine_questions_and_answers(qs, answers_map, notes_map)
    /\ apc' = "done"
    /\ UNCHANGED <<pages_read, words, q_num_rows_data, ans_rows_data,
                   processed_ans_row_indices, q_row_i, best_candidate_ans_row, q_idx,
                   answers, noteVars, answers_map, notes_map, segVars, restVars>>

InitAns == QuestionsIdle /\ AnswersFresh("page") /\ RestIdle

NextAns ==
    \/ ReadAnswerPage
    \/ PairRow
    \/ RowUnpaired
    \/ PairEntry
    \/ RowDone
    \/ PageDone
    \/ FindNotes
    \/ PassA
    \/ PassB
    \/ PassC
    \/ PassD
    \/ ReturnAnswers
    \/ Combine

SpecAns == InitAns /\ [][NextAns]_vars

-----------------------------------------------------------------------------
(* The answer grid alone, on pages of several question-number and answer rows *)

\* the rows a grid page is made of: two question-number rows, at 100 and at 120,
\* and answer rows 10, 30, 40 and 59 units below the first
GridRows ==
    { {Word(<<"TI", "HAO">>, 10, 40, 100), Word(<<"1">>, 100, 110, 100)},
      {Word(<<"DA", "AN">>, 10, 40, 110), Word(<<"A">>, 100, 110, 110)},
      {Word(<<"TI", "HAO">>, 10, 40, 120), Word(<<"2">>, 100, 110, 120)},
      {Word(<<"DA", "AN">>, 10, 40, 130), Word(<<"B">>, 100, 110, 130)},
      {Word(<<"DA", "AN">>, 10, 40, 140), Word(<<"C">>, 100, 110, 140)},
      {Word(<<"DA", "AN">>, 10, 40, 159), Word(<<"D">>, 100, 110, 159)} }

\* lines 300-380: the next page's words are read, grouped into lines and classified
ReadGridPage ==
    /\ apc = "page"
    /\ pages_read < MaxAnswerPages
    /\ \E rows \in SUBSET GridRows :
          LET ws == UNION rows
              structured_lines == GroupLines(SortWords(ws), << >>, << >>)
          IN  /\ words' = SortWords(ws)
              /\ q_num_rows_data' = QNumRows(structured_lines, 1)
              /\ ans_rows_data' = AnsRows(structured_lines, 1)
    /\ processed_ans_row_indices' = {}
    /\ q_row_i' = 1
    /\ best_candidate_ans_row' = Nothing
    /\ q_idx' = 0
    /\ pages_read' = pages_read + 1
    /\ apc' = "rows"
    /\ UNCHANGED <<answers, noteVars, mergeVars, segVars, restVars>>

NextGrid ==
    \/ ReadGridPage
    \/ PairRow
    \/ RowUnpaired
    \/ PairEntry
    \/ RowDone
    \/ PageDone

\* the grid of an answer booklet read page by page
SpecGrid == InitAns /\ [][NextGrid]_vars

-----------------------------------------------------------------------------
(* extract_metadata_from_text *)

\* [：: ]
ColonsAndBlanks == {"COLON", ":", " "}
\* [\S ]: what is not whitespace, and the blank
IsLineChar(c) == c # "EOT" /\ (c = " " \/ ~IsSpace(c))

\* first index >= i of t that holds whitespace or ends t
RECURSIVE SkipLineChars(_, _)
SkipLineChars(t, i) ==
    IF IsLineChar(CharAt(t, i)) THEN SkipLineChars(t, i + 1) ELSE i

\* first index >= i of t that holds no whitespace
RECURSIVE SkipWhite(_, _)
SkipWhite(t, i) == IF i <= Len(t) /\ IsSpace(t[i]) THEN SkipWhite(t, i + 1) ELSE i

\* re.search: the match at the least index from i on at which matcher M matches
NoSearchMatch == [matched |-> FALSE]

\* 代[　\s]*號[：: ]*([0-9]+) at i ("DAI2" is 代)
CodeAt(t, i) ==
    LET h == SkipWhite(t, i + 1)
        d == SkipClass(t, h + 1, ColonsAndBlanks)
    IN  IF CharAt(t, i) = "DAI2" /\ CharAt(t, h) = "HAO" /\ SkipDigits(t, d) > d
        THEN [matched |-> TRUE, g1 |-> SubSeq(t, d, SkipDigits(t, d) - 1)]
        ELSE NoSearchMatch

\* 題[\s　]*數[：: ]*(\d+) at i
QCountAt(t, i) ==
    LET h == SkipWhite(t, i + 1)
        d == SkipClass(t, h + 1, ColonsAndBlanks)
    IN  IF CharAt(t, i) = "TI" /\ CharAt(t, h) = "SHU" /\ SkipDigits(t, d) > d
        THEN [matched |-> TRUE, g1 |-> SubSeq(t, d, SkipDigits(t, d) - 1)]
        ELSE NoSearchMatch

\* label[：: ]*([\S ]+) at i, for the four-character labels 類科名稱 and 科目名稱:
\* the colons and blanks are taken as far as they go, but the last of them is left
\* to the group when nothing else of the line follows
LabelledAt(t, i, label) ==
    LET c == SkipClass(t, i + 4, ColonsAndBlanks)
        e == SkipLineChars(t, c)
    IN  IF ~At(t, i, label) THEN NoSearchMatch
        ELSE IF e > c THEN [matched |-> TRUE, g1 |-> SubSeq(t, c, e - 1)]
        ELSE IF c > i + 4 THEN [matched |-> TRUE, g1 |-> SubSeq(t, c - 1, c - 1)]
        ELSE NoSearchMatch

SUBJECT_TYPE_LABEL == <<"LEI", "KE", "MING", "CHENG">>     \* 類科名稱
SUBJECT_NAME_LABEL == <<"KE", "MU", "MING", "CHENG">>      \* 科目名稱

\* (\d{3,4}) at i: the number of digits taken when 年 must follow; 0 when none
YearDigitsAt(t, i) ==
    IF SkipDigits(t, i) >= i + 4 /\ CharAt(t, i + 4) = "NIAN" THEN 4
    ELSE IF SkipDigits(t, i) >= i + 3 /\ CharAt(t, i + 3) = "NIAN" THEN 3
    ELSE 0

\* lines 90, 96: (\d{3,4})年[ _]*第?(\d+)次 at i
YearPeriodAt(t, i) ==
    LET n == YearDigitsAt(t, i)
        p1 == SkipClass(t, i + n + 1, {" ", "_"})
        p2 == IF CharAt(t, p1) = "DI" THEN p1 + 1 ELSE p1
        e == SkipDigits(t, p2)
    IN  IF n > 0 /\ e > p2 /\ CharAt(t, e) = "CI"
        THEN [matched |-> TRUE, g1 |-> SubSeq(t, i, i + n - 1), g2 |-> SubSeq(t, p2, e - 1)]
        ELSE NoSearchMatch

\* line 101: (\d{3,4})[ _-]?([1-4]) at i, after n digits
PeriodDigits == {"1", "2", "3", "4"}
ShortYearPeriodAfter(t, i, n) ==
    IF SkipDigits(t, i) < i + n THEN NoSearchMatch
    ELSE IF CharAt(t, i + n) \in {" ", "_", "-"} /\ CharAt(t, i + n + 1) \in PeriodDigits
    THEN [matched |-> TRUE, g1 |-> SubSeq(t, i, i + n - 1), g2 |-> <<t[i + n + 1]>>]
    ELSE IF CharAt(t, i + n) \in PeriodDigits
    THEN [matched |-> TRUE, g1 |-> SubSeq(t, i, i + n - 1), g2 |-> <<t[i + n]>>]
    ELSE NoSearchMatch
ShortYearPeriodAt(t, i) ==
    IF ShortYearPeriodAfter(t, i, 4).matched THEN ShortYearPeriodAfter(t, i, 4)
    ELSE ShortYearPeriodAfter(t, i, 3)

\* the patterns of extract_metadata_from_text by name
MetaMatchAt(pattern, t, i) ==
    CASE pattern = "code" -> CodeAt(t, i)
      [] pattern = "type" -> LabelledAt(t, i, SUBJECT_TYPE_LABEL)
      [] pattern = "subject" -> LabelledAt(t, i, SUBJECT_NAME_LABEL)
      [] pattern = "year_period" -> YearPeriodAt(t, i)
      [] pattern = "short_year_period" -> ShortYearPeriodAt(t, i)
      [] pattern = "qcount" -> QCountAt(t, i)

\* re.search(pattern, t)
search(pattern, t) ==
    IF \E i \in 1..Len(t) : MetaMatchAt(pattern, t, i).matched
    THEN MetaMatchAt(pattern, t,
             CHOOSE i \in 1..Len(t) :
                 /\ MetaMatchAt(pattern, t, i).matched
                 /\ \A j \in 1..(i - 1) : ~MetaMatchAt(pattern, t, j).matched)
    ELSE NoSearchMatch

\* lines 89-104: year and period, from the text or else from the filename
YearAndPeriod(text, fn) ==
    IF search("year_period", text).matched
    THEN [year |-> Some(ToInt(search("year_period", text).g1)),
          period |-> Some(ToInt(search("year_period", text).g2))]
    ELSE IF search("year_period", fn).matched
    THEN [year |-> Some(ToInt(search("year_period", fn).g1)),
          period |-> Some(ToInt(search("year_period", fn).g2))]
    ELSE IF search("short_year_period", fn).matched
    THEN [year |-> Some(ToInt(search("short_year_period", fn).g1)),
          period |-> Some(ToInt(search("short_year_period", fn).g2))]
    ELSE [year |-> Nothing, period |-> Nothing]

\* lines 59-110
extract_metadata_from_text(text, fn) ==
    LET lines == StripLines(SplitLines(text))
    IN  [exam_name |-> IF Len(lines) > 0 THEN Some(lines[1]) ELSE Nothing,
         subject_name |-> IF search("subject", text).matched
                          THEN Some(Strip(search("subject", text).g1)) ELSE Nothing,
         subject_code |-> IF search("code", text).matched
                          THEN Some(search("code", text).g1) ELSE Nothing,
         subject_type |-> IF search("type", text).matched
                          THEN Some(Strip(search("type", text).g1)) ELSE Nothing,
         year |-> YearAndPeriod(text, fn).year,
         period |-> YearAndPeriod(text, fn).period,
         question_count |-> IF search("qcount", text).matched
                            THEN Some(ToInt(search("qcount", text).g1)) ELSE Nothing]

\* the lines a booklet's first page may hold, besides its title
YearLines ==
    { << >>,
      <<"1", "1", "2", "NIAN", "DI", "2", "CI">>,           \* 112年第2次
      <<"1", "1", "2", "NIAN", " ", "_", "2", "CI", "x">>,  \* 112年 _2次x
      <<"1", "1", "2", "NIAN", "DI", "ER", "CI">>,          \* 112年第二次
      <<"0", "1", "1", "1", "3", "NIAN", "3", "CI">> }      \* 01113年3次
CodeLines ==
    { << >>,
      <<"DAI2", "IDSP", "HAO", "COLON", "1", "4">>,          \* 代　號：14
      <<"DAI2", "HAO", "x", "3">> }                          \* 代號x3
SubjectLines ==
    { << >>,
      <<"KE", "MU", "MING", "CHENG", "COLON", "x", " ", "y", " ">>,      \* 科目名稱：x y
      <<"LEI", "KE", "MING", "CHENG", ":", " ">> }                       \* 類科名稱:
CountLines ==
    { << >>,
      <<"TI", " ", "SHU", "COLON", " ", "4", "0">> }        \* 題 數： 40
TitleLines == { << >>, <<" ", "x", "y">> }

\* the text of a question booklet: its title and the lines of its head
MetaTexts ==
    {JoinLines(<<a, b, c, d, e>>) :
        a \in TitleLines, b \in YearLines, c \in CodeLines, d \in SubjectLines,
        e \in CountLines}

\* the file names of question booklets
Filenames ==
    { <<"TI", "MU", "1", "1", "1", "NIAN", "_", "DI", "YI", "CI", ".", "p", "d", "f">>,  \* 題目111年_第一次.pdf
      <<"TI", "MU", "1", "1", "1", "NIAN", "_", "DI", "1", "CI", ".", "p", "d", "f">>,   \* 題目111年_第1次.pdf
      <<"TI", "MU", "1", "1", "1", "1", "x", ".", "p", "d", "f">>,                       \* 題目1111x.pdf
      <<"1", "1", "0", "-", "2", ".", "p", "d", "f">>,                                   \* 110-2.pdf
      <<"TI", "MU", ".", "p", "d", "f">> }                                               \* 題目.pdf

\* the other parts are not run while the metadata is extracted
InitMeta ==
    /\ QuestionsIdle
    /\ AnswersIdle
    /\ ImagesIdle
    /\ BatchIdle
    /\ DatabaseIdle
    /\ mpc = "start"
    /\ pdf_text \in MetaTexts
    /\ filename \in Filenames
    /\ meta = EmptyDict

\* lines 59-110: the metadata is extracted
ExtractMetadata ==
    /\ mpc = "start"
    /\ meta' = extract_metadata_from_text(pdf_text, filename)
    /\ mpc' = "done"
    /\ UNCHANGED <<pdf_text, filename, notMetaVars>>

NextMeta == ExtractMetadata

SpecMeta == InitMeta /\ [][NextMeta]_vars

-----------------------------------------------------------------------------
(* parse_questions_from_pdf: images and their association with questions *)

\* pages of a document
MaxImagePages == 2
\* times the same document is parsed
MaxRuns == 2

\* line 908: an image further below the stem than this is not associated
MaxStemDistance == 150
\* float('inf')
Infinity == 1000000

Min(a, b) == IF a < b THEN a ELSE b
Max(a, b) == IF a > b THEN a ELSE b

\* fitz.Rect
Rect(left, top, right, bottom) == [x0 |-> left, y0 |-> top, x1 |-> right, y1 |-> bottom]
\* Rect.__bool__: false for the rectangle of four zeros only
RectIsTrue(r) == ~(r.x0 = 0 /\ r.y0 = 0 /\ r.x1 = 0 /\ r.y1 = 0)
\* Rect.include_rect, for rectangles that are neither empty nor infinite
include_rect(r, other) ==
    Rect(Min(r.x0, other.x0), Min(r.y0, other.y0), Max(r.x1, other.x1), Max(r.y1, other.y1))

\* lines 815-823: a text block of the page
Block(ls, r) == [lines |-> ls, bbox |-> r]
\* an embedded image: kind "rgb" or "cmyk", or "corrupt" when no Pixmap can be made
Image(k, r) == [kind |-> k, bbox |-> r]

\* lines 787-788: the file of image img_index of page page_actual_number; the directory
\* and the stem of the file name are those of the document
ImagePath(page_actual_number, image_index) == [page |-> page_actual_number, img |-> image_index]

\* the lines of all blocks, which are the lines of the page's text
RECURSIVE PageLines(_)
PageLines(blocks) ==
    IF Len(blocks) = 0 THEN << >> ELSE blocks[1].lines \o PageLines(Tail(blocks))

\* lines 185-207 and 245-255: the numbers of the records parse_questions_from_pdf_text
\* returns, one for each line that starts a question with a number other than 0
RECURSIVE StartedNumbers(_, _)
StartedNumbers(mode, lines) ==
    IF Len(lines) = 0 THEN << >>
    ELSE (IF /\ question_start_pattern(mode, Strip(lines[1])).matched
             /\ ToInt(question_start_pattern(mode, Strip(lines[1])).group1) # 0
          THEN <<ToInt(question_start_pattern(mode, Strip(lines[1])).group1)>>
          ELSE << >>) \o StartedNumbers(mode, Tail(lines))

\* lines 848-883: the loop over the blocks from block k on; stem holds the indices of
\* the stem's blocks
RECURSIVE StemScan(_, _, _, _, _, _, _)
StemScan(q_num_as_int, mode, blocks, k, state, stem, first_option_y0_for_q) ==
    IF k > Len(blocks)
    THEN [stem |-> stem, first_option_y0_for_q |-> first_option_y0_for_q]
    ELSE
    LET block_text_stripped_lines == StripLines(blocks[k].lines)
        first_line_of_block == block_text_stripped_lines[1]
        q_start_match == question_start_pattern(mode, first_line_of_block)
        y0 == blocks[k].bbox.y0
        rest == Strip(q_start_match.group2)
        option_lines == {i \in 1..Len(block_text_stripped_lines) :
                            /\ ~(i = 1 /\ Len(rest) > 0)
                            /\ OPTION_REGEX_STR(block_text_stripped_lines[i]).matched}
        found == [stem |-> Append(stem, k),
                  first_option_y0_for_q |-> Min(first_option_y0_for_q, y0)]
    IN  IF Len(block_text_stripped_lines) = 0
        THEN StemScan(q_num_as_int, mode, blocks, k + 1, state, stem, first_option_y0_for_q)
        ELSE IF state = "looking_for_stem_start"
        THEN IF q_start_match.matched /\ ToInt(q_start_match.group1) = q_num_as_int
             THEN IF OPTION_REGEX_STR(rest).matched \/ option_lines # {}
                  THEN found
                  ELSE StemScan(q_num_as_int, mode, blocks, k + 1, "in_stem",
                                Append(stem, k), first_option_y0_for_q)
             ELSE StemScan(q_num_as_int, mode, blocks, k + 1, state, stem,
                           first_option_y0_for_q)
        ELSE IF OPTION_REGEX_STR(first_line_of_block).matched
        THEN [stem |-> stem, first_option_y0_for_q |-> Min(first_option_y0_for_q, y0)]
        ELSE IF q_start_match.matched /\ ToInt(q_start_match.group1) = q_num_as_int + 1
        THEN [stem |-> stem, first_option_y0_for_q |-> first_option_y0_for_q]
        ELSE StemScan(q_num_as_int, mode, blocks, k + 1, "in_stem", Append(stem, k),
                      first_option_y0_for_q)

\* lines 885-889: the stem's box, the first block's box grown by the others
RECURSIVE StemBox(_, _, _, _)
StemBox(blocks, stem, i, main_stem_bbox) ==
    IF i > Len(stem) THEN main_stem_bbox
    ELSE StemBox(blocks, stem, i + 1, include_rect(main_stem_bbox, blocks[stem[i]].bbox))

\* the loop over the page's images, but the first image that qualifies is kept
RECURSIVE BestImageFirstQualifying(_, _, _, _, _, _)
BestImageFirstQualifying(main_stem_bbox, first_option_y0_for_q, images, i, best_img_path_for_q, min_v_dist_to_stem) ==
    IF i > Len(images) THEN best_img_path_for_q
    ELSE
    LET img_bbox == images[i].bbox
        image_starts_below_stem == img_bbox.y0 > main_stem_bbox.y1
        horizontal_overlap == Max(main_stem_bbox.x0, img_bbox.x0)
                                  < Min(main_stem_bbox.x1, img_bbox.x1)
        image_ends_above_options ==
            ~(first_option_y0_for_q # Infinity /\ img_bbox.y1 >= first_option_y0_for_q)
        vertical_distance == img_bbox.y0 - main_stem_bbox.y1
    IN  IF /\ image_starts_below_stem /\ horizontal_overlap /\ image_ends_above_options
           /\ 0 <= vertical_distance /\ vertical_distance < MaxStemDistance
           /\ best_img_path_for_q = Nothing
        THEN BestImageFirstQualifying(main_stem_bbox, first_option_y0_for_q, images,
                                      i + 1, Some(images[i].path), vertical_distance)
        ELSE BestImageFirstQualifying(main_stem_bbox, first_option_y0_for_q, images,
                                      i + 1, best_img_path_for_q, min_v_dist_to_stem)

\* lines 892-911: the loop over the page's images from image i on
RECURSIVE BestImage(_, _, _, _, _, _)
BestImage(main_stem_bbox, first_option_y0_for_q, images, i, best_img_path_for_q, min_v_dist_to_stem) ==
    IF i > Len(images) THEN best_img_path_for_q
    ELSE
    LET img_bbox == images[i].bbox
        image_starts_below_stem == img_bbox.y0 > main_stem_bbox.y1
        horizontal_overlap == Max(main_stem_bbox.x0, img_bbox.x0)
                                  < Min(main_stem_bbox.x1, img_bbox.x1)
        image_ends_above_options ==
            ~(first_option_y0_for_q # Infinity /\ img_bbox.y1 >= first_option_y0_for_q)
        vertical_distance == img_bbox.y0 - main_stem_bbox.y1
    IN  IF /\ image_starts_below_stem /\ horizontal_overlap /\ image_ends_above_options
           /\ 0 <= vertical_distance /\ vertical_distance < MaxStemDistance
           /\ vertical_distance < min_v_dist_to_stem
        THEN BestImage(main_stem_bbox, first_option_y0_for_q, images, i + 1,
                       Some(images[i].path), vertical_distance)
        ELSE BestImage(main_stem_bbox, first_option_y0_for_q, images, i + 1,
                       best_img_path_for_q, min_v_dist_to_stem)

\* lines 837-915 for one question: its image, and the blocks as the loop leaves them;
\* include_rect changes the box of the stem's first block in place
AssociateQuestion(q_num_as_int, mode, blocks, images) ==
    LET scan == StemScan(q_num_as_int, mode, blocks, 1, "looking_for_stem_start",
                         << >>, Infinity)
        main_stem_bbox == StemBox(blocks, scan.stem, 2, blocks[scan.stem[1]].bbox)
    IN  IF Len(scan.stem) = 0
        THEN [image_path |-> Nothing, blocks |-> blocks]
        ELSE [image_path |-> IF RectIsTrue(main_stem_bbox)
                             THEN BestImage(main_stem_bbox, scan.first_option_y0_for_q,
                                            images, 1, Nothing, Infinity)
                             ELSE Nothing,
              blocks |-> [blocks EXCEPT ![scan.stem[1]].bbox = main_stem_bbox]]

\* lines 837-917: the loop over the page's questions from question i on
RECURSIVE AssociatePageQuestions(_, _, _, _, _, _)
AssociatePageQuestions(numbers, i, mode, blocks, images, page_actual_number) ==
    IF i > Len(numbers) THEN << >>
    ELSE LET r == AssociateQuestion(numbers[i], mode, blocks, images)
         IN  <<[question_number |-> numbers[i],
                image_path |-> r.image_path,
                page_number |-> page_actual_number]>>
             \o AssociatePageQuestions(numbers, i + 1, mode, r.blocks, images,
                                       page_actual_number)

\* the blocks of a page
StemOne == Block(<<<<"1", ".", "x">>>>, Rect(50, 100, 300, 120))
MoreStem == Block(<<<<" ", "y", " ">>, << >>>>, Rect(50, 125, 300, 140))
OptionsOne == Block(<<<<"(", "A", ")", " ", "x">>, <<"B", ".", " ", "y">>>>, Rect(50, 200, 300, 240))
StemTwo == Block(<<<<"2", ".", "x">>>>, Rect(50, 300, 300, 320))
WholeOne == Block(<<<<"1", ".", "x">>, <<"(", "A", ")", " ", "x">>>>, Rect(50, 100, 300, 240))
Numbered32 == Block(<<<<"3", ".", "2", "x">>>>, Rect(50, 300, 300, 320))
\* the pages a document is made of: blocks and embedded images
Page(b, i) == [blocks |-> b, images |-> i]
Pages ==
    { \* an image between the stem and the options of question 1
      Page(<<StemOne, OptionsOne, StemTwo>>,
           <<Image("rgb", Rect(60, 130, 200, 190))>>),
      \* an image below the options and one above them
      Page(<<StemOne, MoreStem, OptionsOne>>,
           <<Image("cmyk", Rect(60, 250, 200, 290)), Image("rgb", Rect(60, 150, 200, 190))>>),
      \* an image no Pixmap can be made of, and one beside the text
      Page(<<StemOne, StemTwo, StemOne>>,
           <<Image("corrupt", Rect(60, 130, 200, 190)), Image("rgb", Rect(400, 130, 500, 190))>>),
      \* an image below a line that starts a question in the default mode only
      Page(<<WholeOne, Numbered32>>,
           <<Image("rgb", Rect(60, 330, 200, 400))>>),
      \* a page without text and images
      Page(<< >>, << >>) }


\* sequences of at most n elements of S
RECURSIVE SeqsUpTo(_, _)
SeqsUpTo(S, n) ==
    IF n = 0 THEN {<< >>}
    ELSE SeqsUpTo(S, n - 1) \cup {Append(q, x) : q \in SeqsUpTo(S, n - 1), x \in S}

\* the documents: one that cannot be opened, and those of some pages
Pdfs ==
    {[openable |-> FALSE, mode |-> "default", pages |-> << >>]}
    \cup {[openable |-> TRUE, mode |-> m, pages |-> ps] :
             m \in {"default", "strict_start"}, ps \in SeqsUpTo(Pages, MaxImagePages)}

imgLocals == <<page_num, img_index, page_image_data_list>>

\* lines 717-721: the document cannot be opened, the empty list is returned
OpenFails ==
    /\ ipc = "start"
    /\ ~pdf.openable
    /\ ipc' = "returned"
    /\ UNCHANGED <<pdf, image_store, run, imgLocals, questions_with_images, written,
                   failed, previous_run, notImgVars>>

\* lines 717-776: the document is opened; its first page is next, if it has one
OpenPdf ==
    /\ ipc = "start"
    /\ pdf.openable
    /\ IF Len(pdf.pages) = 0
       THEN ipc' = "returned" /\ UNCHANGED page_num
       ELSE ipc' = "page" /\ page_num' = 1
    /\ UNCHANGED <<pdf, image_store, run, img_index, page_image_data_list,
                   questions_with_images, written, failed, previous_run, notImgVars>>

CurrentImage == pdf.pages[page_num].images[img_index + 1]

\* lines 805-808: the entry of the image in the page's list
ImageEntry == [path |-> ImagePath(page_num, img_index), bbox |-> CurrentImage.bbox]

\* lines 782-813, but the file is saved whether it exists or not
ExtractImageOverwriting ==
    /\ ipc = "page"
    /\ img_index < Len(pdf.pages[page_num].images)
    /\ img_index' = img_index + 1
    /\ IF CurrentImage.kind = "corrupt"
       THEN /\ failed' = failed \cup {ImagePath(page_num, img_index)}
            /\ UNCHANGED <<image_store, written, page_image_data_list>>
       ELSE \/ /\ image_store' = image_store \cup {ImagePath(page_num, img_index)}
               /\ written' = written \cup {ImagePath(page_num, img_index)}
               /\ page_image_data_list' = Append(page_image_data_list, ImageEntry)
               /\ UNCHANGED failed
            \/ /\ image_store' \in {image_store,
                                    image_store \cup {ImagePath(page_num, img_index)}}
               /\ failed' = failed \cup {ImagePath(page_num, img_index)}
               /\ UNCHANGED <<written, page_image_data_list>>
    /\ UNCHANGED <<ipc, pdf, run, page_num, questions_with_images, previous_run,
                   notImgVars>>

\* lines 782-813, but the image is listed before its file is saved
ExtractImageListingFirst ==
    /\ ipc = "page"
    /\ img_index < Len(pdf.pages[page_num].images)
    /\ img_index' = img_index + 1
    /\ IF CurrentImage.kind = "corrupt"
       THEN /\ failed' = failed \cup {ImagePath(page_num, img_index)}
            /\ UNCHANGED <<image_store, written, page_image_data_list>>
       ELSE IF ImagePath(page_num, img_index) \in image_store
       THEN /\ page_image_data_list' = Append(page_image_data_list, ImageEntry)
            /\ UNCHANGED <<image_store, written, failed>>
       ELSE \/ /\ image_store' = image_store \cup {ImagePath(page_num, img_index)}
               /\ written' = written \cup {ImagePath(page_num, img_index)}
               /\ page_image_data_list' = Append(page_image_data_list, ImageEntry)
               /\ UNCHANGED failed
            \/ /\ image_store' \in {image_store,
                                    image_store \cup {ImagePath(page_num, img_index)}}
               /\ failed' = failed \cup {ImagePath(page_num, img_index)}
               /\ page_image_data_list' = Append(page_image_data_list, ImageEntry)
               /\ UNCHANGED written
    /\ UNCHANGED <<ipc, pdf, run, page_num, questions_with_images, previous_run,
                   notImgVars>>

\* lines 782-813: the next image of the page. No Pixmap can be made of a corrupt
\* image; a file that exists is not written again; a save either writes the file or
\* raises, and a save that raises may leave a file behind. Whatever raises is logged
\* and the image is not listed.
ExtractImage ==
    /\ ipc = "page"
    /\ img_index < Len(pdf.pages[page_num].images)
    /\ img_index' = img_index + 1
    /\ IF CurrentImage.kind = "corrupt"
       THEN /\ failed' = failed \cup {ImagePath(page_num, img_index)}
            /\ UNCHANGED <<image_store, written, page_image_data_list>>
       ELSE IF ImagePath(page_num, img_index) \in image_store
       THEN /\ page_image_data_list' = Append(page_image_data_list, ImageEntry)
            /\ UNCHANGED <<image_store, written, failed>>
       ELSE \/ /\ image_store' = image_store \cup {ImagePath(page_num, img_index)}
               /\ written' = written \cup {ImagePath(page_num, img_index)}
               /\ page_image_data_list' = Append(page_image_data_list, ImageEntry)
               /\ UNCHANGED failed
            \/ /\ image_store' \in {image_store,
                                    image_store \cup {ImagePath(page_num, img_index)}}
               /\ failed' = failed \cup {ImagePath(page_num, img_index)}
               /\ UNCHANGED <<written, page_image_data_list>>
    /\ UNCHANGED <<ipc, pdf, run, page_num, questions_with_images, previous_run,
                   notImgVars>>

\* lines 815-917: the page's blocks and text are read, its questions are parsed and
\* each gets its image; then the next page follows, or the document is closed and the
\* records are returned (lines 919-921)
AssociatePage ==
    /\ ipc = "page"
    /\ img_index = Len(pdf.pages[page_num].images)
    /\ questions_with_images' =
           questions_with_images \o
           AssociatePageQuestions(
               StartedNumbers(pdf.mode, PageLines(pdf.pages[page_num].blocks)), 1,
               pdf.mode, pdf.pages[page_num].blocks, page_image_data_list, page_num)
    /\ img_index' = 0
    /\ page_image_data_list' = << >>
    /\ IF page_num < Len(pdf.pages)
       THEN page_num' = page_num + 1 /\ UNCHANGED ipc
       ELSE page_num' = 0 /\ ipc' = "returned"
    /\ UNCHANGED <<pdf, image_store, run, written, failed, previous_run, notImgVars>>

\* parse_questions_from_pdf is called on the same document once more
ParseAgain ==
    /\ ipc = "returned"
    /\ run < MaxRuns
    /\ previous_run' = Some([result |-> questions_with_images,
                             store |-> image_store,
                             failed |-> failed])
    /\ run' = run + 1
    /\ questions_with_images' = << >>
    /\ written' = {}
    /\ failed' = {}
    /\ ipc' = "start"
    /\ UNCHANGED <<pdf, image_store, imgLocals, notImgVars>>

InitImg ==
    /\ QuestionsIdle
    /\ AnswersIdle
    /\ MetadataIdle
    /\ BatchIdle
    /\ DatabaseIdle
    /\ ipc = "start"
    /\ pdf \in Pdfs
    /\ image_store = {}
    /\ run = 1
    /\ page_num = 0
    /\ img_index = 0
    /\ page_image_data_list = << >>
    /\ questions_with_images = << >>
    /\ written = {}
    /\ failed = {}
    /\ previous_run = Nothing

NextImg ==
    \/ OpenFails
    \/ OpenPdf
    \/ ExtractImage
    \/ AssociatePage
    \/ ParseAgain

SpecImg == InitImg /\ [][NextImg]_vars

-----------------------------------------------------------------------------
(* The association alone, on one-page documents of several images *)

\* the images of such a page. The stem of question 1 ends at 120 and its options
\* begin at 200; the stem of question 2 ends at 320 and no options follow
StemImages ==
    { Image("rgb", Rect(60, 130, 200, 190)),     \* 10 below the stem of question 1
      Image("rgb", Rect(60, 125, 200, 180)),     \* 5 below it
      Image("rgb", Rect(60, 120, 200, 180)),     \* begins at the stem's bottom edge
      Image("rgb", Rect(400, 130, 500, 190)),    \* beside the stem
      Image("rgb", Rect(60, 150, 200, 200)),     \* ends at the options' top edge
      Image("rgb", Rect(60, 469, 200, 500)),     \* 149 below the stem of question 2
      Image("rgb", Rect(60, 470, 200, 500)) }    \* 150 below it

\* images on a page
MaxStemImages == 2

\* the documents: one that cannot be opened, and those of one page with the blocks
\* of two questions and some images
StemPdfs ==
    {[openable |-> FALSE, mode |-> "default", pages |-> << >>]}
    \cup {[openable |-> TRUE, mode |-> "default",
           pages |-> <<Page(<<StemOne, OptionsOne, StemTwo>>, imgs)>>] :
             imgs \in SeqsUpTo(StemImages, MaxStemImages)}

InitAssoc ==
    /\ QuestionsIdle
    /\ AnswersIdle
    /\ MetadataIdle
    /\ BatchIdle
    /\ DatabaseIdle
    /\ ipc = "start"
    /\ pdf \in StemPdfs
    /\ image_store = {}
    /\ run = 1
    /\ page_num = 0
    /\ img_index = 0
    /\ page_image_data_list = << >>
    /\ questions_with_images = << >>
    /\ written = {}
    /\ failed = {}
    /\ previous_run = Nothing

SpecAssoc == InitAssoc /\ [][NextImg]_vars

-----------------------------------------------------------------------------
(* main_questions.py: process_all_exam_pdfs and process_single_exam_set *)

\* year/period directories under RAW_DATA_EXAMS_DIR
MaxExamDirs == 2

\* a PDF of a directory: there is none, or fitz cannot open it, or it can be read
PdfStates == {"none", "unreadable", "readable"}
ExamDirs == [question_pdf : PdfStates, answer_pdf : PdfStates]

\* main_questions.py lines 183-202: both PDFs were found in the directory
HoldsBoth(d) == d.question_pdf # "none" /\ d.answer_pdf # "none"

\* pdf_parser.process_exam_pdfs, lines 573-687, when nothing in it raises: the text
\* is "" when the question PDF cannot be opened (lines 44-55), the questions are []
\* then (lines 717-721), the answers are {} when the answer PDF cannot be opened
\* (lines 298-300, 421-425); the merged document is built and returned all the same
process_exam_pdfs(d) ==
    [text_read |-> d.question_pdf = "readable",
     questions_read |-> d.question_pdf = "readable",
     answers_read |-> d.answer_pdf = "readable"]

\* main_questions.py lines 172-204, 209-215: the next directory of the loops; with
\* both PDFs it is passed to process_single_exam_set, else it is skipped
NextExamDir ==
    /\ bpc = "loop"
    /\ dir_i < Len(exam_dirs)
    /\ dir_i' = dir_i + 1
    /\ IF HoldsBoth(exam_dirs[dir_i + 1])
       THEN /\ passed' = passed \cup {dir_i + 1}
            /\ bpc' = "parse"
            /\ UNCHANGED skipped_count
       ELSE /\ skipped_count' = skipped_count + 1
            /\ UNCHANGED <<passed, bpc>>
    /\ UNCHANGED <<exam_dirs, processed_count, parsed_data, output_documents,
                   error_log, notBatchVars>>

\* main_questions.py lines 33-53: process_single_exam_set calls process_exam_pdfs.
\* Either something in it raises, which is logged and ends the exam set; or it
\* returns its document, saved by save_processed_data unless the write failed
\* (pdf_parser.py lines 530-540, where the failure is logged and swallowed)
ParseExamPdfs ==
    /\ bpc = "parse"
    /\ \/ /\ error_log' = error_log \cup {dir_i}
          /\ processed_count' = processed_count + 1
          /\ bpc' = "loop"
          /\ UNCHANGED <<parsed_data, output_documents>>
       \/ /\ parsed_data' = Some(process_exam_pdfs(exam_dirs[dir_i]))
          /\ output_documents' \in {output_documents, output_documents \cup {dir_i}}
          /\ bpc' = "db"
          /\ UNCHANGED <<error_log, processed_count>>
    /\ UNCHANGED <<exam_dirs, dir_i, skipped_count, passed, notBatchVars>>

\* main_questions.py lines 203-208, but an exception ends the loops
DatabaseStepsEndingLoop ==
    /\ bpc = "db"
    /\ parsed_data' = Nothing
    /\ \/ /\ processed_count' = processed_count + 1
          /\ bpc' = "loop"
          /\ UNCHANGED skipped_count
       \/ /\ skipped_count' = skipped_count + 1
          /\ bpc' = "done"
          /\ UNCHANGED processed_count
    /\ UNCHANGED <<exam_dirs, dir_i, passed, output_documents, error_log, notBatchVars>>

\* main_questions.py lines 56-156 and 203-208: the database part of
\* process_single_exam_set. It returns, early or at its end, and the exam set is
\* counted as processed; or it raises and the exam set is counted as skipped
DatabaseSteps ==
    /\ bpc = "db"
    /\ parsed_data' = Nothing
    /\ \/ /\ processed_count' = processed_count + 1
          /\ UNCHANGED skipped_count
       \/ /\ skipped_count' = skipped_count + 1
          /\ UNCHANGED processed_count
    /\ bpc' = "loop"
    /\ UNCHANGED <<exam_dirs, dir_i, passed, output_documents, error_log, notBatchVars>>

\* main_questions.py line 217: the loops have ended
FinishBatch ==
    /\ bpc = "loop"
    /\ dir_i = Len(exam_dirs)
    /\ bpc' = "done"
    /\ UNCHANGED <<exam_dirs, dir_i, processed_count, skipped_count, passed,
                   parsed_data, output_documents, error_log, notBatchVars>>

InitBatch ==
    /\ QuestionsIdle
    /\ AnswersIdle
    /\ MetadataIdle
    /\ ImagesIdle
    /\ DatabaseIdle
    /\ bpc = "loop"
    /\ exam_dirs \in SeqsUpTo(ExamDirs, MaxExamDirs)
    /\ dir_i = 0
    /\ processed_count = 0
    /\ skipped_count = 0
    /\ passed = {}
    /\ parsed_data = Nothing
    /\ output_documents = {}
    /\ error_log = {}

NextBatch ==
    \/ NextExamDir
    \/ ParseExamPdfs
    \/ DatabaseSteps
    \/ FinishBatch

SpecBatch == InitBatch /\ [][NextBatch]_vars

\* the loops are sequential code: while a step is left to take, one is taken
SpecBatchFair == SpecBatch /\ WF_vars(NextBatch)

-----------------------------------------------------------------------------
(* db_handler.py *)

\* calls of db_handler in one run
MaxCalls == 3

\* get_or_create_test's default duration_in_seconds, line 162
DEFAULT_DURATION == 3600

\* a response of the Supabase client: rows, and an error or None
Response(rows, err) == [data |-> rows, error |-> err]

\* str.lower() on the characters of a name
Lower(c) == CASE c = "A" -> "a" [] c = "B" -> "b" [] OTHER -> c

\* [a-z0-9\-一-鿿]: what generate_slug keeps
SlugChars == {"a", "b", "x", "y", "-", "KE", "MU"} \cup Digits

\* line 50: runs of blanks and periods become one hyphen
RECURSIVE Hyphenate(_)
Hyphenate(t) ==
    IF Len(t) = 0 THEN << >>
    ELSE IF IsSpace(t[1]) \/ t[1] = "."
    THEN <<"-">> \o Hyphenate(SubSeq(t, SkipClass(t, 1, {" ", "NL", "IDSP", "."}), Len(t)))
    ELSE <<t[1]>> \o Hyphenate(Tail(t))

\* line 51: what is no slug character is removed
RECURSIVE KeepSlugChars(_)
KeepSlugChars(t) ==
    IF Len(t) = 0 THEN << >>
    ELSE (IF t[1] \in SlugChars THEN <<t[1]>> ELSE << >>) \o KeepSlugChars(Tail(t))

\* line 52: runs of hyphens become one
RECURSIVE SqueezeHyphens(_)
SqueezeHyphens(t) ==
    IF Len(t) = 0 THEN << >>
    ELSE IF t[1] = "-"
    THEN <<"-">> \o SqueezeHyphens(SubSeq(t, SkipClass(t, 1, {"-"}), Len(t)))
    ELSE <<t[1]>> \o SqueezeHyphens(Tail(t))

\* line 53: strip('-')
StripHyphens(t) ==
    LET a == SkipClass(t, 1, {"-"})
        b == CHOOSE j \in 0..Len(t) :
                 /\ \A k \in (j + 1)..Len(t) : t[k] = "-"
                 /\ (j = 0 \/ t[j] # "-")
    IN  SubSeq(t, a, b)

\* line 58: the slug of a name that leaves nothing
DEFAULT_SLUG == <<"d", "e", "f", "a", "u", "l", "t", "-", "s", "l", "u", "g">>

\* lines 45-59
generate_slug(name) ==
    LET s == StripHyphens(SqueezeHyphens(KeepSlugChars(Hyphenate(
                 [i \in 1..Len(name) |-> Lower(name[i])]))))
    IN  IF Len(s) = 0 THEN DEFAULT_SLUG ELSE s

\* line 73: the rows of subjects with the name, but none is ever found
SelectNoSubject(name) == {}

\* line 73: client.table("subjects").select("id").eq("name", subject_name)
SelectSubjects(name) == {r \in subjects : r.name = name}

\* lines 62-101: the ways a call of get_or_create_subject can go. Each is the value
\* returned, the table after the call and whether a row was inserted. A query or an
\* insert may raise, and an insert may come back without data; the row is stored
\* only by an insert that returns it.
get_or_create_subject(subject_name) ==
    LET none == [result |-> Nothing, subjects |-> subjects, inserted |-> FALSE]
        row == [id |-> next_id, name |-> subject_name, slug |-> generate_slug(subject_name)]
    IN  IF ~supabase THEN {none}
        ELSE {none}                                  \* the query or the insert fails
             \cup (IF SelectSubjects(subject_name) # {}
                   THEN {[result |-> Some(r.id), subjects |-> subjects, inserted |-> FALSE] :
                            r \in SelectSubjects(subject_name)}
                   ELSE {[result |-> Some(next_id), subjects |-> subjects \cup {row},
                          inserted |-> TRUE]})

\* the history of a subject name before any call
NoSubjectHistory == [ids |-> {}, inserts |-> 0]
HistoryOf(name) ==
    IF name \in DOMAIN subject_history THEN subject_history[name] ELSE NoSubjectHistory

\* the names of subjects
SubjectNames == { <<"A", ".", " ", "b">>,     \* "A. b", slug "a-b"
                  <<"(", ".", ")">> }          \* "(.)", slug "default-slug"

dbTables == <<subjects, tests, questions_table>>

\* lines 62-101: a call of get_or_create_subject
GetOrCreateSubject ==
    /\ dpc = "ready"
    /\ calls < MaxCalls
    /\ \E subject_name \in SubjectNames :
         \E out \in get_or_create_subject(subject_name) :
            /\ subjects' = out.subjects
            /\ next_id' = IF out.inserted THEN next_id + 1 ELSE next_id
            /\ last_call' = Some([fn |-> "get_or_create_subject",
                                  subject_name |-> subject_name,
                                  result |-> out.result,
                                  inserted |-> out.inserted,
                                  before |-> HistoryOf(subject_name)])
            /\ subject_history' =
                   DictPut(subject_history, subject_name,
                           [ids |-> HistoryOf(subject_name).ids \cup
                                        {out.result[i] : i \in 1..Len(out.result)},
                            inserts |-> HistoryOf(subject_name).inserts +
                                            (IF out.inserted THEN 1 ELSE 0)])
    /\ calls' = calls + 1
    /\ UNCHANGED <<dpc, supabase, tests, questions_table, notDbVars>>

\* the arguments of get_or_create_test; duration_in_seconds and description keep
\* their defaults, as in every call of main_questions.py
TestArguments ==
    [test_name : {"t1", "t2"}, year : {111}, period : {1, 2}, subject_id : {1},
     subject_code : {Nothing, Some("SC001"), Some("SC002")},
     question_count : {Nothing, Some(80)}]

\* lines 185-189: the rows with the key, as the columns id, name,
\* duration_in_seconds and description
SelectTests(a) ==
    {[id |-> r.id, name |-> r.name, duration_in_seconds |-> r.duration_in_seconds,
      description |-> r.description] :
        r \in {t \in tests : t.subject_id = a.subject_id /\ t.year = a.year
                                /\ t.period = a.period}}

\* test_record.get(column): None for a column the query did not select
Get(test_record, column) ==
    IF column \in DOMAIN test_record THEN test_record[column] ELSE Nothing

\* lines 204-228, but the name is left as it is
UpdatesKeepingName(test_record, a) ==
    (IF a.subject_code # Nothing /\ Get(test_record, "subject_code") # a.subject_code
     THEN {"subject_code"} ELSE {})
    \cup (IF a.question_count # Nothing /\ Get(test_record, "question_count") # a.question_count
          THEN {"question_count"} ELSE {})
    \cup (IF test_record.duration_in_seconds # Some(DEFAULT_DURATION)
          THEN {"duration_in_seconds"} ELSE {})

\* lines 204-228: the columns of updates_to_perform
updates_to_perform(test_record, a) ==
    (IF test_record.name # a.test_name THEN {"name"} ELSE {})
    \cup (IF a.subject_code # Nothing /\ Get(test_record, "subject_code") # a.subject_code
          THEN {"subject_code"} ELSE {})
    \cup (IF a.question_count # Nothing /\ Get(test_record, "question_count") # a.question_count
          THEN {"question_count"} ELSE {})
    \cup (IF test_record.duration_in_seconds # Some(DEFAULT_DURATION)
          THEN {"duration_in_seconds"} ELSE {})

\* line 231: the row after update(updates_to_perform)
Updated(t, columns, a) ==
    [t EXCEPT !.name = IF "name" \in columns THEN a.test_name ELSE @,
              !.subject_code = IF "subject_code" \in columns THEN a.subject_code ELSE @,
              !.question_count = IF "question_count" \in columns THEN a.question_count ELSE @,
              !.duration_in_seconds = IF "duration_in_seconds" \in columns
                                      THEN Some(DEFAULT_DURATION) ELSE @]

\* lines 243-255: the row inserted for a new test
NewTest(a) ==
    [id |-> next_id, name |-> a.test_name, year |-> a.year, period |-> a.period,
     subject_id |-> a.subject_id, duration_in_seconds |-> Some(DEFAULT_DURATION),
     description |-> Nothing, subject_code |-> a.subject_code,
     question_count |-> a.question_count]

\* lines 157-269: the ways a call of get_or_create_test can go: the value returned,
\* the table after the call, the id found, the columns of updates_to_perform, how the
\* update went ("none" when none was made, "ok", "no_data" when it came back without
\* data, "raised") and whether a row was inserted
get_or_create_test(a) ==
    LET none == [result |-> Nothing, tests |-> tests, found |-> Nothing,
                 columns |-> {}, update |-> "none", inserted |-> FALSE]
        ForRecord(test_record) ==
            LET columns == updates_to_perform(test_record, a)
                same == [result |-> Some(test_record.id), tests |-> tests,
                         found |-> Some(test_record.id), columns |-> columns,
                         update |-> "none", inserted |-> FALSE]
            IN  IF columns = {} THEN {same}
                ELSE {[same EXCEPT !.update = "ok",
                                   !.tests = {IF t.id = test_record.id
                                              THEN Updated(t, columns, a) ELSE t : t \in tests}],
                      [same EXCEPT !.update = "no_data"],
                      [same EXCEPT !.update = "raised", !.result = Nothing]}
    IN  IF ~supabase THEN {none}
        ELSE {none}                                  \* the query or the insert fails
             \cup (IF SelectTests(a) # {}
                   THEN UNION {ForRecord(test_record) : test_record \in SelectTests(a)}
                   ELSE {[none EXCEPT !.result = Some(next_id),
                                      !.tests = tests \cup {NewTest(a)},
                                      !.inserted = TRUE]})

\* lines 157-269: a call of get_or_create_test
GetOrCreateTest ==
    /\ dpc = "ready"
    /\ calls < MaxCalls
    /\ \E a \in TestArguments :
         \E out \in get_or_create_test(a) :
            /\ tests' = out.tests
            /\ next_id' = IF out.inserted THEN next_id + 1 ELSE next_id
            /\ last_call' = Some([fn |-> "get_or_create_test", arguments |-> a,
                                  result |-> out.result, found |-> out.found,
                                  columns |-> out.columns, update |-> out.update,
                                  inserted |-> out.inserted,
                                  existing |-> {t.id : t \in
                                      {r \in tests : /\ r.subject_id = a.subject_id
                                                     /\ r.year = a.year
                                                     /\ r.period = a.period}}])
    /\ calls' = calls + 1
    /\ UNCHANGED <<dpc, supabase, subjects, questions_table, subject_history, notDbVars>>

\* the lists of rows given to batch_insert_questions
QuestionRow(n) == [question_number |-> n, test_id |-> 1]
QuestionBatches == { << >>, <<QuestionRow(1)>>, <<QuestionRow(1), QuestionRow(2)>> }

\* the rows of a batch at the positions in stored, as the database returns them
RECURSIVE StoredRows(_, _, _, _)
StoredRows(rows, stored, i, id) ==
    IF i > Len(rows) THEN << >>
    ELSE IF i \in stored
    THEN <<[id |-> id, question_number |-> rows[i].question_number,
            test_id |-> rows[i].test_id]>> \o StoredRows(rows, stored, i + 1, id + 1)
    ELSE StoredRows(rows, stored, i + 1, id)

\* line 293: the ways the insert of a batch can go: the positions of the rows the
\* database stored, the response, and whether execute() raised. All rows are stored;
\* or none is, with an exception or with an error in the response (with a message
\* or without one); or some are and the response holds these, without an error
InsertOutcomes(rows) ==
    {[stored |-> 1..Len(rows), raised |-> FALSE,
      response |-> Response(StoredRows(rows, 1..Len(rows), 1, next_id), Nothing)],
     [stored |-> {}, raised |-> TRUE, response |-> Nothing],
     [stored |-> {}, raised |-> FALSE, response |-> Response(<< >>, Some("message"))],
     [stored |-> {}, raised |-> FALSE, response |-> Response(<< >>, Some("no message"))]}
    \cup {[stored |-> part, raised |-> FALSE,
           response |-> Response(StoredRows(rows, part, 1, next_id), Nothing)] :
             part \in (SUBSET (1..Len(rows))) \ {{}, 1..Len(rows)}}

\* lines 297-316: the lists returned after the insert went as o
InsertResult(questions_data_list, o) ==
    IF o.raised
    THEN [successful_inserts |-> << >>, failed_inserts |-> questions_data_list]
    ELSE IF o.response.error # Nothing
    THEN [successful_inserts |-> << >>, failed_inserts |-> questions_data_list]
    ELSE [successful_inserts |-> o.response.data, failed_inserts |-> << >>]

\* lines 273-323: a call of batch_insert_questions
BatchInsertQuestions ==
    /\ dpc = "ready"
    /\ calls < MaxCalls
    /\ \E questions_data_list \in QuestionBatches :
         IF ~supabase
         THEN /\ last_call' = Some([fn |-> "batch_insert_questions",
                                    questions_data_list |-> questions_data_list,
                                    stored |-> {},
                                    successful_inserts |-> << >>,
                                    failed_inserts |-> questions_data_list])
              /\ UNCHANGED <<questions_table, next_id>>
         ELSE IF Len(questions_data_list) = 0
         THEN /\ last_call' = Some([fn |-> "batch_insert_questions",
                                    questions_data_list |-> questions_data_list,
                                    stored |-> {},
                                    successful_inserts |-> << >>,
                                    failed_inserts |-> << >>])
              /\ UNCHANGED <<questions_table, next_id>>
         ELSE \E o \in InsertOutcomes(questions_data_list) :
                /\ questions_table' =
                       questions_table \cup
                       {StoredRows(questions_data_list, o.stored, 1, next_id)[i] :
                            i \in 1..Cardinality(o.stored)}
                /\ next_id' = next_id + Cardinality(o.stored)
                /\ last_call' =
                       Some([fn |-> "batch_insert_questions",
                             questions_data_list |-> questions_data_list,
                             stored |-> o.stored,
                             successful_inserts |->
                                 InsertResult(questions_data_list, o).successful_inserts,
                             failed_inserts |->
                                 InsertResult(questions_data_list, o).failed_inserts])
    /\ calls' = calls + 1
    /\ UNCHANGED <<dpc, supabase, subjects, tests, subject_history, notDbVars>>

\* lines 22-32: the client was initialised or not; the tables are empty
InitDb ==
    /\ QuestionsIdle
    /\ AnswersIdle
    /\ MetadataIdle
    /\ ImagesIdle
    /\ BatchIdle
    /\ CallersIdle
    /\ dpc = "ready"
    /\ supabase \in BOOLEAN
    /\ subjects = {}
    /\ tests = {}
    /\ questions_table = {}
    /\ next_id = 1
    /\ calls = 0
    /\ last_call = Nothing
    /\ subject_history = EmptyDict

NextDb ==
    \/ GetOrCreateSubject
    \/ GetOrCreateTest
    \/ BatchInsertQuestions

SpecDb == InitDb /\ [][NextDb]_vars

-----------------------------------------------------------------------------
(* main_questions.py: process_single_exam_set, step by step *)

\* `not x` on a string that may be None
Missing(v) == v = Nothing \/ v = Some(<< >>)

\* the metadata of an exam: extract_metadata_from_text leaves None what it did
\* not find
ExamMetadata ==
    [subject_name : {Nothing, Some(<< >>), Some(<<"A", ".", " ", "b">>)},
     exam_name : {Nothing, Some(<< >>), Some(<<"t", "1">>)},
     year : {Nothing, Some(111)},
     period : {Nothing, Some(1)},
     subject_code : {Nothing},
     question_count : {Nothing}]

\* a merged question record; its content may be missing
ParsedQuestion(n, c) ==
    [question_number |-> Some(n), content |-> c, options |-> Some(EmptyDict),
     correct_answer_key |-> Some(<< >>)]

\* the lists of questions of a document
ParsedQuestionLists ==
    { << >>,
      <<ParsedQuestion(1, Nothing)>>,
      <<ParsedQuestion(1, Some("c1")), ParsedQuestion(2, Nothing),
        ParsedQuestion(3, Some("c3"))>> }

\* the rows, but none carries the id of the test
RowsWithoutTestId(questions_list_from_parser, id) ==
    LET kept == SelectSeq(questions_list_from_parser,
                          LAMBDA q : /\ q.content # Nothing /\ q.options # Nothing
                                     /\ q.correct_answer_key # Nothing
                                     /\ q.question_number # Nothing)
    IN  [i \in 1..Len(kept) |->
            [question_number |-> kept[i].question_number[1], test_id |-> 0]]

\* lines 110-143: the rows built for the questions that have their content,
\* options, answer key and number, each with the id of the test
questions_for_db(questions_list_from_parser, id) ==
    LET kept == SelectSeq(questions_list_from_parser,
                          LAMBDA q : /\ q.content # Nothing /\ q.options # Nothing
                                     /\ q.correct_answer_key # Nothing
                                     /\ q.question_number # Nothing)
    IN  [i \in 1..Len(kept) |->
            [question_number |-> kept[i].question_number[1], test_id |-> id]]

setLocals == <<subject_id, test_id>>
setIdleVars == <<segVars, ansVars, metaVars, imgVars, bpc, exam_dirs, dir_i,
                 processed_count, skipped_count, passed, output_documents, error_log,
                 dpc, supabase, calls, last_call, subject_history, workers, unique_names,
                 heap>>

\* lines 33-53: a PDF is not found, or process_exam_pdfs raises, and the function
\* returns; or process_exam_pdfs returns the document
ParseExamSet ==
    /\ spc = "start"
    /\ \/ /\ db_log' = Append(db_log, [fn |-> "process_exam_pdfs", result |-> Nothing])
          /\ spc' = "done"
          /\ UNCHANGED parsed_data
       \/ \E m \in ExamMetadata, qs \in ParsedQuestionLists :
             LET document == [meta |-> m, questions |-> qs]
             IN  /\ parsed_data' = Some(document)
                 /\ db_log' = Append(db_log, [fn |-> "process_exam_pdfs",
                                              result |-> Some(document)])
                 /\ spc' = "subject"
    /\ UNCHANGED <<setLocals, subjects, tests, questions_table, next_id, setIdleVars>>

\* lines 55-80: the checks of the document, of the client and of the subject name,
\* then get_or_create_subject
SubjectOfExamSet ==
    /\ spc = "subject"
    /\ LET metadata == parsed_data[1].meta
       IN  IF \/ parsed_data = Nothing
              \/ {"meta", "questions"} \ DOMAIN parsed_data[1] # {}
              \/ ~supabase
              \/ Missing(metadata.subject_name)
           THEN /\ spc' = "done"
                /\ UNCHANGED <<subject_id, subjects, next_id, db_log>>
           ELSE \E out \in get_or_create_subject(metadata.subject_name[1]) :
                   /\ subjects' = out.subjects
                   /\ next_id' = IF out.inserted THEN next_id + 1 ELSE next_id
                   /\ subject_id' = out.result
                   /\ db_log' = Append(db_log, [fn |-> "get_or_create_subject",
                                                result |-> out.result])
                   /\ spc' = IF out.result = Nothing THEN "done" ELSE "test"
    /\ UNCHANGED <<test_id, parsed_data, tests, questions_table, setIdleVars>>

\* lines 83-106: the check of the name, year and period, then get_or_create_test
TestOfExamSet ==
    /\ spc = "test"
    /\ LET metadata == parsed_data[1].meta
       IN  IF Missing(metadata.exam_name) \/ metadata.year = Nothing
              \/ metadata.period = Nothing
           THEN /\ spc' = "done"
                /\ UNCHANGED <<test_id, tests, next_id, db_log>>
           ELSE LET a == [test_name |-> metadata.exam_name[1],
                          year |-> metadata.year[1],
                          period |-> metadata.period[1],
                          subject_id |-> subject_id[1],
                          subject_code |-> metadata.subject_code,
                          question_count |-> metadata.question_count]
                IN  \E out \in get_or_create_test(a) :
                       /\ tests' = out.tests
                       /\ next_id' = IF out.inserted THEN next_id + 1 ELSE next_id
                       /\ test_id' = out.result
                       /\ db_log' = Append(db_log, [fn |-> "get_or_create_test",
                                                    result |-> out.result])
                       /\ spc' = IF out.result = Nothing THEN "done" ELSE "rows"
    /\ UNCHANGED <<subject_id, parsed_data, subjects, questions_table, setIdleVars>>

\* lines 108-156: the rows are built and, when there is one, given to
\* batch_insert_questions
InsertOfExamSet ==
    /\ spc = "rows"
    /\ LET rows == questions_for_db(parsed_data[1].questions, test_id[1])
       IN  IF Len(rows) = 0
           THEN UNCHANGED <<questions_table, next_id, db_log>>
           ELSE \E o \in InsertOutcomes(rows) :
                   /\ questions_table' =
                          questions_table \cup
                          {StoredRows(rows, o.stored, 1, next_id)[i] :
                               i \in 1..Cardinality(o.stored)}
                   /\ next_id' = next_id + Cardinality(o.stored)
                   /\ db_log' = Append(db_log, [fn |-> "batch_insert_questions",
                                                questions_data_list |-> rows,
                                                stored |-> o.stored])
    /\ spc' = "done"
    /\ UNCHANGED <<setLocals, parsed_data, subjects, tests, setIdleVars>>

\* the exam set is processed with a database that holds nothing yet, or the subject
\* of an earlier exam, or the subject and its test
InitSet ==
    /\ QuestionsIdle
    /\ AnswersIdle
    /\ MetadataIdle
    /\ ImagesIdle
    /\ BatchIdle
    /\ dpc = "idle"
    /\ supabase \in BOOLEAN
    /\ \E held \in 0..2 :
          /\ subjects = IF held = 0 THEN {}
                        ELSE {[id |-> 1, name |-> <<"A", ".", " ", "b">>,
                               slug |-> generate_slug(<<"A", ".", " ", "b">>)]}
          /\ tests = IF held < 2 THEN {}
                     ELSE {[id |-> 2, name |-> <<"t", "0">>, year |-> 111, period |-> 1,
                            subject_id |-> 1,
                            duration_in_seconds |-> Some(DEFAULT_DURATION),
                            description |-> Nothing, subject_code |-> Nothing,
                            question_count |-> Nothing]}
          /\ next_id = held + 1
    /\ questions_table = {}
    /\ calls = 0
    /\ last_call = Nothing
    /\ subject_history = EmptyDict
    /\ spc = "start"
    /\ subject_id = Nothing
    /\ test_id = Nothing
    /\ db_log = << >>
    /\ workers = << >>
    /\ unique_names = FALSE
    /\ heap = << >>

NextSet ==
    \/ ParseExamSet
    \/ SubjectOfExamSet
    \/ TestOfExamSet
    \/ InsertOfExamSet

SpecSet == InitSet /\ [][NextSet]_vars

-----------------------------------------------------------------------------
(* combine_questions_and_answers on question records held by reference *)

\* the question records of the caller: dicts at the addresses 1..4. The last one
\* has no question_number
QuestionObjects ==
    << [question_number |-> 1, content |-> <<"x">>, options |-> EmptyDict,
        image_path |-> Some("page1_img0.png"), page_number |-> 1],
       [question_number |-> 2, content |-> <<"y">>, options |-> EmptyDict,
        image_path |-> Nothing, page_number |-> 1],
       [question_number |-> 3, content |-> << >>, options |-> EmptyDict,
        image_path |-> Nothing, page_number |-> 2, notes |-> Some(<<"n">>)],
       [content |-> <<"z">>, options |-> EmptyDict, image_path |-> Nothing,
        page_number |-> 2] >>

\* the maps parse_answers_from_pdf_text can return
AnswerMaps ==
    { EmptyDict,
      [n \in {1} |-> << <<"A">> >>],
      [n \in {1, 2} |-> IF n = 1 THEN << <<"#">> >> ELSE << <<"B">>, <<"C">> >>] }
NoteMaps ==
    { Nothing,
      Some([n \in {1} |-> <<"SONG_FEN">>]),
      Some([n \in {2, 3} |-> <<"SONG_FEN">>]) }

\* the record at an address is used as it is
SameObject(h, address) == [heap |-> h, address |-> address]

\* line 502: question.copy(), a new dict with the keys and values of the question
copy(h, address) == [heap |-> Append(h, h[address]), address |-> Len(h) + 1]

\* lines 494-524: the loop over the questions from the first of qs on; out is
\* combined_data so far
RECURSIVE MergeLoop(_, _, _, _, _)
MergeLoop(h, qs, am, nm, out) ==
    IF Len(qs) = 0 THEN [heap |-> h, combined_data |-> out]
    ELSE LET question == qs[1]
         IN  IF "question_number" \notin DOMAIN h[question]
             THEN MergeLoop(h, Tail(qs), am, nm, Append(out, question))
             ELSE LET copied == copy(h, question)
                      question_copy == copied.address
                  IN  MergeLoop([copied.heap EXCEPT ![question_copy] = Combined(@, am, nm)],
                                Tail(qs), am, nm, Append(out, question_copy))

\* lines 481-526: a call of combine_questions_and_answers on the caller's list
CombineRecords ==
    /\ apc = "combine"
    /\ LET merged == MergeLoop(heap, questions, answers_map,
                               IF notes_map = Nothing THEN EmptyDict ELSE notes_map[1],
                               << >>)
       IN  /\ heap' = merged.heap
           /\ combined_data' = merged.combined_data
    /\ apc' = "done"
    /\ UNCHANGED <<pages_read, words, q_num_rows_data, ans_rows_data,
                   processed_ans_row_indices, q_row_i, best_candidate_ans_row, q_idx,
                   answers, noteVars, questions, answers_map, notes_map, segVars,
                   metaVars, imgVars, batchVars, dbVars, spc, subject_id, test_id,
                   db_log, workers, unique_names>>

\* the caller holds a list of up to MaxQuestions of its records and the two maps
InitMerge ==
    /\ QuestionsIdle
    /\ MetadataIdle
    /\ ImagesIdle
    /\ BatchIdle
    /\ dpc = "idle"
    /\ supabase = FALSE
    /\ subjects = {}
    /\ tests = {}
    /\ questions_table = {}
    /\ next_id = 1
    /\ calls = 0
    /\ last_call = Nothing
    /\ subject_history = EmptyDict
    /\ spc = "idle"
    /\ subject_id = << >>
    /\ test_id = << >>
    /\ db_log = << >>
    /\ workers = << >>
    /\ unique_names = FALSE
    /\ apc = "combine"
    /\ pages_read = 0
    /\ words = << >>
    /\ q_num_rows_data = << >>
    /\ ans_rows_data = << >>
    /\ processed_ans_row_indices = {}
    /\ q_row_i = 0
    /\ best_candidate_ans_row = Nothing
    /\ q_idx = 0
    /\ answers = EmptyDict
    /\ notes = EmptyDict
    /\ grid_answers = EmptyDict
    /\ note_text = Nothing
    /\ heap = QuestionObjects
    /\ questions \in SeqsUpTo(1..Len(QuestionObjects), MaxQuestions)
    /\ answers_map \in AnswerMaps
    /\ notes_map \in NoteMaps
    /\ combined_data = << >>

SpecMerge == InitMerge /\ [][CombineRecords]_vars

-----------------------------------------------------------------------------
(* db_handler.py: get_or_create_subject called by two workers at once *)

\* the workers, each processing one exam
Workers == {"w1", "w2"}

\* a worker that has not yet called get_or_create_subject for its exam's subject
FreshWorker(subject_name) ==
    [wpc |-> "select", subject_name |-> subject_name, result |-> Nothing,
     inserted |-> FALSE, failed |-> FALSE, conflict |-> FALSE]

workerIdleVars == <<segVars, ansVars, metaVars, imgVars, batchVars, dpc, supabase, tests,
                    questions_table, calls, last_call, subject_history, spc, subject_id,
                    test_id, db_log, unique_names, heap>>

\* lines 67-78: the worker has no client; or its query raises; or it returns the
\* rows of the name, and the id of one of them is returned, or none and the worker
\* goes on to create the subject
SelectSubject(w) ==
    /\ workers[w].wpc = "select"
    /\ \/ /\ ~supabase
          /\ workers' = [workers EXCEPT ![w].wpc = "done"]
       \/ /\ supabase
          /\ workers' = [workers EXCEPT ![w].wpc = "done", ![w].failed = TRUE]
       \/ /\ supabase
          /\ IF SelectSubjects(workers[w].subject_name) # {}
             THEN \E r \in SelectSubjects(workers[w].subject_name) :
                     workers' = [workers EXCEPT ![w].wpc = "done",
                                                ![w].result = Some(r.id)]
             ELSE workers' = [workers EXCEPT ![w].wpc = "insert"]
    /\ UNCHANGED <<subjects, next_id, workerIdleVars>>

\* lines 79-101: the worker inserts the subject with its slug. The insert raises or
\* comes back without data; or the table refuses the row because the name is
\* there by now; or the row is stored and its id returned
InsertSubject(w) ==
    /\ workers[w].wpc = "insert"
    /\ LET subject_name == workers[w].subject_name
           row == [id |-> next_id, name |-> subject_name,
                   slug |-> generate_slug(subject_name)]
       IN  \/ /\ workers' = [workers EXCEPT ![w].wpc = "done", ![w].failed = TRUE]
              /\ UNCHANGED <<subjects, next_id>>
           \/ IF unique_names /\ SelectSubjects(subject_name) # {}
              THEN /\ workers' = [workers EXCEPT ![w].wpc = "done",
                                                 ![w].conflict = TRUE]
                   /\ UNCHANGED <<subjects, next_id>>
              ELSE /\ subjects' = subjects \cup {row}
                   /\ next_id' = next_id + 1
                   /\ workers' = [workers EXCEPT ![w].wpc = "done",
                                                 ![w].result = Some(next_id),
                                                 ![w].inserted = TRUE]
    /\ UNCHANGED workerIdleVars

\* two workers are about to ask for the subjects of their exams; the table is
\* empty or holds the first of the names
InitWorkers ==
    /\ QuestionsIdle
    /\ AnswersIdle
    /\ MetadataIdle
    /\ ImagesIdle
    /\ BatchIdle
    /\ dpc = "idle"
    /\ supabase \in BOOLEAN
    /\ \E held \in BOOLEAN :
          /\ subjects = IF held
                        THEN {[id |-> 1, name |-> <<"A", ".", " ", "b">>,
                               slug |-> generate_slug(<<"A", ".", " ", "b">>)]}
                        ELSE {}
          /\ next_id = IF held THEN 2 ELSE 1
    /\ tests = {}
    /\ questions_table = {}
    /\ calls = 0
    /\ last_call = Nothing
    /\ subject_history = EmptyDict
    /\ spc = "idle"
    /\ subject_id = << >>
    /\ test_id = << >>
    /\ db_log = << >>
    /\ workers \in [Workers -> {FreshWorker(n) : n \in SubjectNames}]
    /\ unique_names \in BOOLEAN
    /\ heap = << >>

NextWorkers ==
    \/ \E w \in Workers : SelectSubject(w)
    \/ \E w \in Workers : InsertSubject(w)

SpecWorkers == InitWorkers /\ [][NextWorkers]_vars

-----------------------------------------------------------------------------
(* Properties of the question scanner *)

\* the page being scanned and the line handled last
CurrentPage == doc[Len(doc)]
LastLine == CurrentPage[Len(CurrentPage)]
LineScanned == pc = "scan" /\ Len(doc) > 0 /\ Len(CurrentPage) > 0

\* all lines of the document, page after page
RECURSIVE AllLines(_)
AllLines(d) == IF Len(d) = 0 THEN << >> ELSE d[1] \o AllLines(Tail(d))

QuestionNumbersUnique(qs) ==
    \A i, j \in 1..Len(qs) : i # j => qs[i].question_number # qs[j].question_number

\* no two lines the scanner takes as question starts carry the same number
MarkersDistinct ==
    LET ls == AllLines(doc)
        m(i) == question_start_pattern(parsing_mode, ls[i])
    IN  \A i, j \in 1..Len(ls) :
           (i # j /\ m(i).matched /\ m(j).matched)
              => ToInt(m(i).group1) # ToInt(m(j).group1)

MarkerLineDigitsEnd(line) == SkipDigits(line, SkipSpace(line, 1))
MarkerLinePeriodAt(line) == SkipSpace(line, MarkerLineDigitsEnd(line))
IsMarkerLine(line) ==
    /\ MarkerLineDigitsEnd(line) > SkipSpace(line, 1)
    /\ MarkerLinePeriodAt(line) <= Len(line)
    /\ line[MarkerLinePeriodAt(line)] \in {".", "FWDOT"}
MarkerLineNumber(line) ==
    ToInt(SubSeq(line, SkipSpace(line, 1), MarkerLineDigitsEnd(line) - 1))
\* in strict_start mode a digit right after the period makes the line no marker
ValidInMode(line) ==
    parsing_mode = "strict_start" =>
       ~(/\ MarkerLinePeriodAt(line) + 1 <= Len(line)
         /\ IsDigit(line[MarkerLinePeriodAt(line) + 1]))

\* C4: every line "N<period> text", the period half-width or full-width, starts a
\* question record whose question_number is N.
C4_MarkerLineStartsQuestion ==
    (LineScanned /\ IsMarkerLine(LastLine) /\ ValidInMode(LastLine))
       => /\ current_question # NoQuestion
          /\ current_question.question_number = MarkerLineNumber(LastLine)
          /\ current_question.options = EmptyDict
          /\ current_state = PARSING_QUESTION_CONTENT

\* an option-marker line: (X) or （Ｘ） or X. or Ｘ．, X a half- or full-width letter
OptionLineStart(line) == SkipSpace(line, 1)
IsParenOptionLine(line) ==
    LET a == OptionLineStart(line)
        b == SkipSpace(line, a + 1)
        c == SkipSpace(line, b + 1)
    IN  /\ a <= Len(line) /\ line[a] \in {"(", "FWLP"}
        /\ b <= Len(line) /\ line[b] \in HalfWidthUpper \cup FullWidthUpper
        /\ c <= Len(line) /\ line[c] \in {")", "FWRP"}
IsDotOptionLine(line) ==
    LET a == OptionLineStart(line)
        b == SkipSpace(line, a + 1)
    IN  /\ a <= Len(line) /\ line[a] \in HalfWidthUpper \cup FullWidthUpper
        /\ b <= Len(line) /\ line[b] \in {".", "FWDOT"}
OptionLineLetter(line) ==
    IF IsParenOptionLine(line)
    THEN line[SkipSpace(line, OptionLineStart(line) + 1)]
    ELSE line[OptionLineStart(line)]
HalfWidthOf(c) ==
    CASE c = "FW_A" -> "A" [] c = "FW_B" -> "B" [] c = "FW_C" -> "C"
      [] c = "FW_D" -> "D" [] OTHER -> c

\* C5: every option-marker line met while a question is active, in any of the four
\* forms, opens an option whose key is the half-width letter.
C5_OptionLineOpensOption ==
    (/\ LineScanned
     /\ IsParenOptionLine(LastLine) \/ IsDotOptionLine(LastLine)
     /\ current_question # NoQuestion)
       => /\ current_state = PARSING_OPTION_TEXT
          /\ active_option_letter = HalfWidthOf(OptionLineLetter(LastLine))
          /\ active_option_letter \in DOMAIN current_question.options

\* C6: a text built from k questions with distinct numbers, each with a stem and
\* two options, is segmented into exactly those k records, in order, with the
\* question_number, content and options they were built from.
C6_RoundTrip ==
    pc \in {"paged", "parsed"} => questions_data = built_from

\* C6 witness: a three-question booklet with a two-line stem has been parsed back.
C6_Witness ==
    /\ pc = "paged"
    /\ Len(built_from) = 3
    /\ Len(questions_data) = 3
    /\ \E i \in 1..3 : Len(SplitLines(built_from[i].content)) = 2

-----------------------------------------------------------------------------
(* Properties of the answer grid *)

\* the rows of the page are used up
PageFinished == apc = "rows" /\ q_row_i > Len(q_num_rows_data)

\* a number of the paired row has just got its answer
EntryResolved == apc = "entries" /\ q_idx > 1
ResolvedEntry == CurrentQRow.q_numbers[q_idx - 1]
ResolvedNumber == ToInt(ResolvedEntry.text)

\* the entries of the paired answer row less than 25 units to the side of e, and the
\* closest of them (distances between midpoints, doubled like the midpoints)
PairedAnswers == best_candidate_ans_row[1].answers
XDist2(e, a) == Abs(e.x_mid2 - a.x_mid2)
InReach(e) == {i \in 1..Len(PairedAnswers) : XDist2(e, PairedAnswers[i]) < 50}
Closest(e) ==
    {i \in InReach(e) :
        \A j \in InReach(e) : XDist2(e, PairedAnswers[i]) <= XDist2(e, PairedAnswers[j])}

\* the page of the example: 題號 1 2 3 at y=100, 答案 A B C at y=110, each letter
\* under its number
ExamplePage ==
    << [text |-> <<"TI", "HAO">>, x0 |-> 10, x1 |-> 40, y0 |-> 100],
       [text |-> <<"1">>, x0 |-> 100, x1 |-> 110, y0 |-> 100],
       [text |-> <<"2">>, x0 |-> 150, x1 |-> 160, y0 |-> 100],
       [text |-> <<"3">>, x0 |-> 200, x1 |-> 210, y0 |-> 100],
       [text |-> <<"DA", "AN">>, x0 |-> 10, x1 |-> 40, y0 |-> 110],
       [text |-> <<"A">>, x0 |-> 100, x1 |-> 110, y0 |-> 110],
       [text |-> <<"B">>, x0 |-> 150, x1 |-> 160, y0 |-> 110],
       [text |-> <<"C">>, x0 |-> 200, x1 |-> 210, y0 |-> 110] >>
ExampleMap == (1 :> << <<"A">> >>) @@ (2 :> << <<"B">> >>) @@ (3 :> << <<"C">> >>)

\* C7: the example page gives {1:['A'], 2:['B'], 3:['C']}; and every number of a
\* paired question-number row that has an entry of the answer row less than 25
\* units to its side is mapped to the closest such entry.
C7_ClosestAnswerInReach ==
    /\ (PageFinished /\ words = ExamplePage) =>
           /\ \A n \in 1..3 : n \in DOMAIN answers /\ answers[n] = ExampleMap[n]
           /\ pages_read = 1 => answers = ExampleMap
    /\ (EntryResolved /\ InReach(ResolvedEntry) # {}) =>
           /\ ResolvedNumber \in DOMAIN answers
           /\ \E i \in Closest(ResolvedEntry) :
                 answers[ResolvedNumber] = <<PairedAnswers[i].text>>

\* the example page has been worked through
C7_Witness == PageFinished /\ words = ExamplePage /\ answers = ExampleMap

\* C8 as stated: when a page is worked through, every number of its
\* question-number rows that has no answer-row entry less than 25 units to its side
\* is in the answer map, with ['#'].
AnswerInAnyRowInReach(e) ==
    \E r \in 1..Len(ans_rows_data) : \E i \in 1..Len(ans_rows_data[r].answers) :
        XDist2(e, ans_rows_data[r].answers[i]) < 50
C8_EveryEntryRecorded ==
    PageFinished =>
        \A r \in 1..Len(q_num_rows_data) : \A k \in 1..Len(q_num_rows_data[r].q_numbers) :
            LET e == q_num_rows_data[r].q_numbers[k]
            IN  ~AnswerInAnyRowInReach(e) =>
                    /\ ToInt(e.text) \in DOMAIN answers
                    /\ answers[ToInt(e.text)] = << <<"#">> >>

\* C8, for the rows that found an answer row: a number of a paired question-number
\* row with no entry of the answer row less than 25 units to its side is in the
\* answer map, with ['#'].
C8_NoAnswerInReachGivesHash ==
    (EntryResolved /\ InReach(ResolvedEntry) = {}) =>
        /\ ResolvedNumber \in DOMAIN answers
        /\ answers[ResolvedNumber] = << <<"#">> >>

\* a number of a paired row was resolved with no answer in reach
C8_Witness ==
    /\ EntryResolved
    /\ InReach(ResolvedEntry) = {}
    /\ ResolvedNumber \in DOMAIN answers
    /\ answers[ResolvedNumber] = << <<"#">> >>

-----------------------------------------------------------------------------
(* Properties of the erratum block *)

\* the four patterns have run over a block
ErratumDone == apc = "return" /\ note_text # Nothing

\* the answers the matches of pattern a, of pattern b and of the multi-question
\* pattern give question q
MatchesOf(pattern) ==
    LET ms == finditer(pattern, note_text, 1) IN {ms[i] : i \in 1..Len(ms)}
Listed(m) == LET ns == q_nums(m.g1) IN {ns[i] : i \in 1..Len(ns)}
ErratumValues(q) ==
    {<<normalize_full_width_alpha(m.g2)>> : m \in {x \in MatchesOf("a") : ToInt(x.g1) = q}}
    \cup {<<SONG_FEN>> : m \in {x \in MatchesOf("b") : ToInt(x.g1) = q}}
    \cup {IF m.g3 # << >> THEN <<normalize_full_width_alpha(m.g3)>> ELSE <<SONG_FEN>> :
             m \in {x \in MatchesOf("d") : q \in Listed(x)}}

\* C1: a question the grid answered and the erratum block (pattern a, b or the
\* multi-question pattern) answers too has the erratum's answer in the answers map
\* that is returned; the merge is given that map, and puts its entry for the
\* question into correct_answer_key.
C1_ErratumOverGrid ==
    /\ ErratumDone =>
           \A q \in DOMAIN grid_answers :
               ErratumValues(q) # {} => q \in DOMAIN answers /\ answers[q] \in ErratumValues(q)
    /\ apc \in {"combine", "done"} => answers_map = answers
    /\ apc = "done" =>
           \A i \in 1..Len(combined_data) :
               questions[i].question_number \in DOMAIN answers_map =>
                   combined_data[i].correct_answer_key
                       = answers_map[questions[i].question_number]

\* the erratum gave a question another answer than the grid, and its answer is kept
C1_Witness ==
    /\ ErratumDone
    /\ \E q \in DOMAIN grid_answers :
          /\ ErratumValues(q) # {}
          /\ grid_answers[q] \notin ErratumValues(q)
          /\ answers[q] \in ErratumValues(q)

\* sentence s stands in the block; the other sentences of the block that name n
InBlock(s) == note_text # Nothing /\ Contains(note_text, s.text)
OthersNaming(s, n) == {o \in ErratumSentences \ {s} : InBlock(o) /\ n \in o.names}
NumberOf(s) == CHOOSE n \in s.names : TRUE

\* the sentences "第N題答案更正為X。" with X one of A-D
SingleCorrections ==
    {s \in ErratumSentences :
        s.kind = "correction" /\ Cardinality(s.names) = 1 /\ s.letter[1] \in HalfWidthUpper}

\* C9 as stated: a block that holds the sentence "第N題答案更正為X。" ends with
\* answers[N] = [X] and the note "答案更正為 X" for N.
C9_CorrectionApplied ==
    ErratumDone =>
        \A s \in SingleCorrections :
            InBlock(s) =>
                /\ NumberOf(s) \in DOMAIN answers /\ answers[NumberOf(s)] = <<s.letter>>
                /\ NumberOf(s) \in DOMAIN notes /\ notes[NumberOf(s)] = CorrectionNote(s.letter)

\* C9, for a block with no other sentence about N: it ends with answers[N] = [X] and
\* the note "答案更正為 X" for N, whatever the grid had for N.
C9_SoleCorrectionApplied ==
    ErratumDone =>
        \A s \in SingleCorrections :
            (InBlock(s) /\ OthersNaming(s, NumberOf(s)) = {}) =>
                /\ NumberOf(s) \in DOMAIN answers /\ answers[NumberOf(s)] = <<s.letter>>
                /\ NumberOf(s) \in DOMAIN notes /\ notes[NumberOf(s)] = CorrectionNote(s.letter)

\* the only sentence about N corrected the grid's other answer for N
C9_Witness ==
    /\ ErratumDone
    /\ \E s \in SingleCorrections :
          /\ InBlock(s)
          /\ OthersNaming(s, NumberOf(s)) = {}
          /\ NumberOf(s) \in DOMAIN grid_answers
          /\ grid_answers[NumberOf(s)] # <<s.letter>>
          /\ answers[NumberOf(s)] = <<s.letter>>
          /\ notes[NumberOf(s)] = CorrectionNote(s.letter)

\* the sentences that list several numbers and give them full credit
MultiCredits ==
    {s \in ErratumSentences : s.kind = "credit" /\ Cardinality(s.names) > 1}

-----------------------------------------------------------------------------
(* Properties of the merge *)

Merged == apc = "done"

NotesGiven == IF notes_map = Nothing THEN EmptyDict ELSE notes_map[1]

\* C11: after the merge, a question whose number is in notes_map has exactly that
\* note, also when its key is ['#']; a question whose key is ['#'] and whose number
\* is not in notes_map has the note "答案待確認".
C11_NotesMapReplacesAutoNote ==
    Merged =>
        \A i \in 1..Len(combined_data) :
            LET q == questions[i].question_number
            IN  /\ q \in DOMAIN NotesGiven => combined_data[i].notes = Some(NotesGiven[q])
                /\ (q \notin DOMAIN NotesGiven
                    /\ combined_data[i].correct_answer_key = << <<"#">> >>) =>
                       combined_data[i].notes = Some(PENDING_NOTE)

\* a question with the key ['#'] and a note in notes_map was merged
C11_Witness ==
    /\ Merged
    /\ \E i \in 1..Len(combined_data) :
          /\ combined_data[i].correct_answer_key = << <<"#">> >>
          /\ questions[i].question_number \in DOMAIN NotesGiven
          /\ combined_data[i].notes = Some(NotesGiven[questions[i].question_number])

-----------------------------------------------------------------------------
(* Properties of the metadata *)

MetadataDone == mpc = "done"

\* a file name read with its Chinese numerals written as digits (一 as 1, 二 as 2)
Arabic(t) ==
    [i \in 1..Len(t) |-> IF t[i] = "YI" THEN "1" ELSE IF t[i] = "ER" THEN "2" ELSE t[i]]

\* C12: when the page text holds no year/period pattern and the file name holds one
\* (as in 111年_第一次), the metadata has the year and the period of the file name;
\* when the page text holds one, the metadata has the year and period of the text
C12_FilenameFallback ==
    MetadataDone =>
        /\ (~search("year_period", pdf_text).matched
                /\ search("year_period", Arabic(filename)).matched) =>
               /\ meta.year = Some(ToInt(search("year_period", Arabic(filename)).g1))
               /\ meta.period = Some(ToInt(search("year_period", Arabic(filename)).g2))
        /\ search("year_period", pdf_text).matched =>
               /\ meta.year = Some(ToInt(search("year_period", pdf_text).g1))
               /\ meta.period = Some(ToInt(search("year_period", pdf_text).g2))

-----------------------------------------------------------------------------
(* Properties of the images *)

ImagesReturned == ipc = "returned"

\* the files referenced by records
ReferencedBy(records) ==
    {records[i].image_path[1] : i \in {j \in 1..Len(records) : records[j].image_path # Nothing}}

\* the files the image store held when the run began
StoreBefore == IF previous_run = Nothing THEN {} ELSE previous_run[1].store

\* of the files in fs, those whose image could be extracted, so that it was the save
\* that failed
SaveFailed(fs) == {f \in fs : pdf.pages[f.page].images[f.img + 1].kind # "corrupt"}

\* C13 as stated: every referenced file was written during the run that returns the
\* record, and its extraction and save did not fail
C13_ReferencedWrittenThisRun ==
    /\ ReferencedBy(questions_with_images) \subseteq written
    /\ ReferencedBy(questions_with_images) \cap failed = {}

\* C13: every referenced file is in the image store, written during the run or there
\* before it began, and no referenced file is one whose extraction or save failed in
\* the run
C13_ReferencedInStore ==
    /\ ReferencedBy(questions_with_images) \subseteq image_store
    /\ ReferencedBy(questions_with_images) \subseteq written \cup StoreBefore
    /\ ReferencedBy(questions_with_images) \cap failed = {}

\* a run has returned a record with an image it wrote, while the save of another
\* image failed and left a file behind
C13_Witness ==
    /\ ImagesReturned
    /\ ReferencedBy(questions_with_images) \cap written # {}
    /\ SaveFailed(failed) \cap image_store # {}

-----------------------------------------------------------------------------
(* Properties of the batch *)

BatchDone == bpc = "done"

\* C15: an output document is saved only for an exam whose question PDF and answer
\* PDF could both be opened and read; for any other exam process_exam_pdfs does not
\* go on to merge and save
C15_NoDocumentForUnreadablePdf ==
    \A i \in output_documents :
        /\ exam_dirs[i].question_pdf = "readable"
        /\ exam_dirs[i].answer_pdf = "readable"

\* the directories holding both a question and an answer PDF
HoldingBoth == {i \in 1..Len(exam_dirs) : HoldsBoth(exam_dirs[i])}

\* C16: whatever fails on the way, the loops come to their end, and by then every
\* directory holding both a question and an answer PDF has been passed to
\* process_single_exam_set
C16_EveryExamSetPassed == <>(BatchDone /\ HoldingBoth \subseteq passed)

\* the loops have ended after an exam set failed, by an exception or by the early
\* return after a failed parse, and an exam set after it was passed all the same
C16_Witness ==
    /\ BatchDone
    /\ Len(exam_dirs) = 2
    /\ passed = {1, 2}
    /\ (skipped_count = 1 \/ 1 \in error_log)

-----------------------------------------------------------------------------
(* Properties of the database calls *)

LastCallOf(fn) == last_call # Nothing /\ last_call[1].fn = fn

\* at most one row of tests for a subject, year and period
OneTestPerKey ==
    \A t1, t2 \in tests :
        (t1.subject_id = t2.subject_id /\ t1.year = t2.year /\ t1.period = t2.period)
            => t1 = t2

\* the row of tests with the id
TestWithId(id) == CHOOSE t \in tests : t.id = id

\* the row has the name passed, and the subject code and the question count passed
\* where these are not None
HoldsPassedValues(t, a) ==
    /\ t.name = a.test_name
    /\ a.subject_code # Nothing => t.subject_code = a.subject_code
    /\ a.question_count # Nothing => t.question_count = a.question_count

Range(f) == {f[i] : i \in 1..Len(f)}

\* C18: after batch_insert_questions, every row of the batch that was not stored is
\* in the failed list, and no row that was stored is
C18_FailedAreTheRowsNotStored ==
    LastCallOf("batch_insert_questions") =>
        \A i \in 1..Len(last_call[1].questions_data_list) :
            (i \in last_call[1].stored)
                <=> (last_call[1].questions_data_list[i] \notin Range(last_call[1].failed_inserts))

\* C19: the calls of get_or_create_subject with one name that return an id return the
\* same id; the row of a name is inserted once, and only by a call before which no
\* call with the name had returned an id
C19_SameIdAndOneInsert ==
    /\ \A name \in DOMAIN subject_history :
           /\ Cardinality(subject_history[name].ids) <= 1
           /\ subject_history[name].inserts <= 1
           /\ Cardinality(SelectSubjects(name)) <= 1
    /\ (LastCallOf("get_or_create_subject") /\ last_call[1].inserted) =>
           /\ last_call[1].before.ids = {}
           /\ last_call[1].before.inserts = 0

\* a repeated call returned the id that the first call had got for the row it
\* inserted, and inserted nothing
C19_Witness ==
    /\ LastCallOf("get_or_create_subject")
    /\ last_call[1].before.inserts = 1
    /\ last_call[1].result # Nothing
    /\ last_call[1].before.ids = {last_call[1].result[1]}
    /\ ~last_call[1].inserted

-----------------------------------------------------------------------------
(* Properties of the two scanner modes *)

\* the scanner's variables as one record
ScannerNow ==
    [questions_data |-> questions_data,
     current_question |-> current_question,
     current_text_buffer |-> current_text_buffer,
     active_option_letter |-> active_option_letter,
     current_state |-> current_state]

\* a line "N.d...": a question marker whose half-width period is followed at once
\* by a digit
DigitAfterMarker(line) ==
    /\ MarkerLineDigitsEnd(line) > SkipSpace(line, 1)
    /\ MarkerLinePeriodAt(line) <= Len(line)
    /\ line[MarkerLinePeriodAt(line)] = "."
    /\ MarkerLinePeriodAt(line) + 1 <= Len(line)
    /\ IsDigit(line[MarkerLinePeriodAt(line) + 1])

\* the digit that follows the period of such a line
DigitAfter(line) == line[MarkerLinePeriodAt(line) + 1]

\* the scanner before the line handled last
ScannerBefore ==
    ScanLines(SubSeq(CurrentPage, 1, Len(CurrentPage) - 1), parsing_mode)

\* C20: on a text no line of which has a digit right after the period of a question
\* marker, the two modes leave the scanner in the same state and return the same
\* list. A line that has one starts no question in strict_start mode: it is taken
\* as a continuation line (or skipped when no question is open); in default mode
\* it starts question N, whose content begins with that digit.
C20_ModesDifferOnlyOnDigitAfterMarker ==
    pc = "scan" =>
        /\ ScannerNow = ScanLines(CurrentPage, parsing_mode)
        /\ (\A i \in 1..Len(CurrentPage) : ~DigitAfterMarker(CurrentPage[i])) =>
               /\ ScanLines(CurrentPage, "default") = ScanLines(CurrentPage, "strict_start")
               /\ parse_questions_from_pdf_text(CurrentPage, "default")
                      = parse_questions_from_pdf_text(CurrentPage, "strict_start")
        /\ (Len(CurrentPage) > 0 /\ DigitAfterMarker(LastLine)) =>
               IF parsing_mode = "strict_start"
               THEN /\ questions_data = ScannerBefore.questions_data
                    /\ current_question = ScannerBefore.current_question
                    /\ current_state = ScannerBefore.current_state
                    /\ active_option_letter = ScannerBefore.active_option_letter
                    /\ current_text_buffer =
                          IF ScannerBefore.current_question # NoQuestion
                          THEN Append(ScannerBefore.current_text_buffer, Strip(LastLine))
                          ELSE ScannerBefore.current_text_buffer
               ELSE /\ questions_data = Pushed(ScannerBefore)
                    /\ current_question # NoQuestion
                    /\ current_question.question_number = MarkerLineNumber(LastLine)
                    /\ current_state = PARSING_QUESTION_CONTENT
                    /\ Len(current_text_buffer) = 1
                    /\ current_text_buffer[1][1] = DigitAfter(LastLine)
                    /\ Finalized(ScannerNow).content[1] = DigitAfter(LastLine)

\* in strict_start mode a line with a digit right after the period was appended to
\* the open question, and default mode returns another list for the same lines
C20_Witness ==
    /\ LineScanned
    /\ DigitAfterMarker(LastLine)
    /\ parsing_mode = "strict_start"
    /\ current_question # NoQuestion
    /\ current_text_buffer # << >>
    /\ current_text_buffer[Len(current_text_buffer)] = LastLine
    /\ parse_questions_from_pdf_text(CurrentPage, "default")
           # parse_questions_from_pdf_text(CurrentPage, "strict_start")

-----------------------------------------------------------------------------
(* Properties of the page-by-page scan *)

\* the texts a record holds: its content and the texts of its options
TextsOf(r) == {r.content} \cup {r.options[k] : k \in DOMAIN r.options}

\* page 1 ended inside a question and page 2 begins with a non-blank line that
\* starts no question: the question's text goes on over the page boundary
SplitAcrossPages ==
    /\ Len(doc) = 2
    /\ parse_questions_from_pdf_text(doc[1], parsing_mode) # << >>
    /\ Len(doc[2]) > 0
    /\ Len(Strip(doc[2][1])) > 0
    /\ ~question_start_pattern(parsing_mode, doc[2][1]).matched
    /\ ~OPTION_REGEX_STR(doc[2][1]).matched

\* C21: when a question's text goes on over a page boundary, the text that continues
\* on the second page is held by a record of the second page
C21_ContinuedTextAppears ==
    (pc = "paged" /\ SplitAcrossPages) =>
        \E i \in 1..Len(all_parsed_questions_data) :
            /\ all_parsed_questions_data[i].page_number = 2
            /\ \E t \in TextsOf(all_parsed_questions_data[i]) :
                   Contains(t, Strip(doc[2][1]))

-----------------------------------------------------------------------------
(* Properties of continuation lines *)

\* a non-blank line that matches neither the question pattern nor the option pattern
PlainLine(line, mode) ==
    /\ Len(Strip(line)) > 0
    /\ ~question_start_pattern(mode, line).matched
    /\ ~OPTION_REGEX_STR(line).matched

\* the first i lines
Prefix(lines, i) == SubSeq(lines, 1, i)

\* after line i, and before the next question starts, an option line names the letter
ReopenedLater(lines, i, mode, letter) ==
    \E j \in (i + 1)..Len(lines) :
        /\ OPTION_REGEX_STR(lines[j]).matched
        /\ normalized_letter(OPTION_REGEX_STR(lines[j]).letter) = letter
        /\ \A k \in (i + 1)..j : ~question_start_pattern(mode, lines[k]).matched

\* the field of record r that was active in scanner state st: the text of the option
\* being read, or the content
FieldOf(r, st) ==
    IF st.current_state = PARSING_OPTION_TEXT
    THEN IF st.active_option_letter \in DOMAIN r.options
         THEN r.options[st.active_option_letter] ELSE << >>
    ELSE r.content

\* the scanner state st after the trimmed line joined its buffer
WithLineAppended(st, line) ==
    [st EXCEPT !.current_text_buffer = Append(@, Strip(line))]

\* C22 as stated: a plain line met while a question is active is appended, trimmed,
\* to the active buffer and ends up in that field of the question's record; met
\* before the first question it changes nothing
C22_PlainLineEndsUpInActiveField ==
    pc = "scan" =>
        \A i \in 1..Len(CurrentPage) :
            PlainLine(CurrentPage[i], parsing_mode) =>
                LET st == ScanLines(Prefix(CurrentPage, i - 1), parsing_mode)
                    after == ScanLines(Prefix(CurrentPage, i), parsing_mode)
                    out == parse_questions_from_pdf_text(CurrentPage, parsing_mode)
                    n == Len(st.questions_data) + 1
                IN  IF st.current_question # NoQuestion
                    THEN /\ after = WithLineAppended(st, CurrentPage[i])
                         /\ Len(out) >= n
                         /\ out[n].question_number = st.current_question.question_number
                         /\ Contains(FieldOf(out[n], st), Strip(CurrentPage[i]))
                    ELSE after = st

\* C22: a plain line met while a question is active is appended, trimmed, to the
\* active buffer; it ends up in that field of the question's record when the
\* question's number is not 0 and the option being read is not opened again later
\* in the question; met before the first question it changes nothing
C22_PlainLineEndsUpUnlessDroppedOrReplaced ==
    pc = "scan" =>
        /\ ScannerNow = ScanLines(CurrentPage, parsing_mode)
        /\ \A i \in 1..Len(CurrentPage) :
            PlainLine(CurrentPage[i], parsing_mode) =>
                LET st == ScanLines(Prefix(CurrentPage, i - 1), parsing_mode)
                    after == ScanLines(Prefix(CurrentPage, i), parsing_mode)
                    out == parse_questions_from_pdf_text(CurrentPage, parsing_mode)
                    n == Len(st.questions_data) + 1
                IN  IF st.current_question # NoQuestion
                    THEN /\ after = WithLineAppended(st, CurrentPage[i])
                         /\ (/\ st.current_question.question_number # 0
                             /\ ~(/\ st.current_state = PARSING_OPTION_TEXT
                                  /\ ReopenedLater(CurrentPage, i, parsing_mode,
                                                   st.active_option_letter))) =>
                                /\ Len(out) >= n
                                /\ out[n].question_number
                                       = st.current_question.question_number
                                /\ Contains(FieldOf(out[n], st), Strip(CurrentPage[i]))
                         /\ st.current_question.question_number = 0 =>
                                Len(Pushed(after)) = Len(st.questions_data)
                    ELSE after = st

\* a plain line was appended to the text of the option being read, and the option
\* of the record holds it after the option line's own text
C22_Witness ==
    /\ LineScanned
    /\ Len(CurrentPage) = 3
    /\ PlainLine(LastLine, parsing_mode)
    /\ current_state = PARSING_OPTION_TEXT
    /\ Len(current_text_buffer) = 2
    /\ current_text_buffer[2] = Strip(LastLine)
    /\ Len(parse_questions_from_pdf_text(CurrentPage, parsing_mode)) = 1
    /\ Contains(parse_questions_from_pdf_text(CurrentPage, parsing_mode)[1]
                    .options[active_option_letter],
                <<"NL">> \o Strip(LastLine))

-----------------------------------------------------------------------------
(* Properties of the row pairing *)

\* the question-number row the loop is at
RowAtHand == apc = "rows" /\ q_row_i <= Len(q_num_rows_data)

\* the answer rows strictly below the question-number row, less than RowWindow units
\* down, that no row before has been paired with
Eligible(q_row_data) ==
    {a \in Range(ans_rows_data) :
        /\ 0 < a.y0 - q_row_data.y0
        /\ a.y0 - q_row_data.y0 < RowWindow
        /\ a.index \notin processed_ans_row_indices}

\* the nearest of these
Nearest(q_row_data) ==
    {a \in Eligible(q_row_data) :
        \A b \in Eligible(q_row_data) : a.y0 - q_row_data.y0 <= b.y0 - q_row_data.y0}

\* C23: a question-number row is paired with the nearest answer row strictly below
\* it, less than 40 units down, that is not paired yet, and the row counts as paired
\* from then on, so no answer row is paired twice; a question-number row without
\* such an answer row records no answer and pairs nothing
C23_PairedWithNearestFreeRowBelow ==
    [][RowAtHand =>
          IF Eligible(CurrentQRow) = {}
          THEN /\ answers' = answers
               /\ processed_ans_row_indices' = processed_ans_row_indices
               /\ best_candidate_ans_row' = Nothing
               /\ q_row_i' = q_row_i + 1
          ELSE /\ best_candidate_ans_row' # Nothing
               /\ best_candidate_ans_row'[1] \in Nearest(CurrentQRow)
               /\ best_candidate_ans_row'[1].index \notin processed_ans_row_indices
               /\ processed_ans_row_indices'
                      = processed_ans_row_indices \cup {best_candidate_ans_row'[1].index}
               /\ q_row_i' = q_row_i]_vars

\* the second question-number row of a page was paired with an answer row although
\* a nearer one lies below it, which the first row had been paired with
C23_Witness ==
    /\ apc = "entries"
    /\ q_row_i = 2
    /\ Cardinality(processed_ans_row_indices) = 2
    /\ \E a \in Range(ans_rows_data) :
           /\ a.index \in processed_ans_row_indices
           /\ 0 < a.y0 - CurrentQRow.y0
           /\ a.y0 - CurrentQRow.y0 < best_candidate_ans_row[1].y0 - CurrentQRow.y0

-----------------------------------------------------------------------------
(* Properties of the choice of a question's image *)

\* the images of the page are extracted and its questions are next
PageAtHand == ipc = "page" /\ img_index = Len(pdf.pages[page_num].images)

\* the numbers of the page's questions
PageNumbers == StartedNumbers(pdf.mode, PageLines(pdf.pages[page_num].blocks))

\* the page's blocks as the questions before question i leave them
RECURSIVE BlocksBefore(_)
BlocksBefore(i) ==
    IF i = 1 THEN pdf.pages[page_num].blocks
    ELSE AssociateQuestion(PageNumbers[i - 1], pdf.mode, BlocksBefore(i - 1),
                           page_image_data_list).blocks

\* the stem blocks and the first-option boundary of question i
StemOf(i) ==
    StemScan(PageNumbers[i], pdf.mode, BlocksBefore(i), 1, "looking_for_stem_start",
             << >>, Infinity)

\* the stem box of a question of the page, from the scan of its blocks
StemBoxOf(blocks, scan) ==
    StemBox(blocks, scan.stem, 2, blocks[scan.stem[1]].bbox)

\* the gap between the bottom edge of the stem box and the top of listed image j
Gap(box, j) == page_image_data_list[j].bbox.y0 - box.y1

\* the listed images that start below the stem box, overlap it horizontally, end
\* above the first-option boundary when there is one, and are less than
\* MaxStemDistance below the stem
Qualifying(box, first_option_y0_for_q) ==
    {j \in 1..Len(page_image_data_list) :
        LET img_bbox == page_image_data_list[j].bbox
        IN  /\ img_bbox.y0 > box.y1
            /\ img_bbox.x0 < box.x1
            /\ box.x0 < img_bbox.x1
            /\ (first_option_y0_for_q # Infinity => img_bbox.y1 < first_option_y0_for_q)
            /\ Gap(box, j) < MaxStemDistance}

\* C24: the record of a question whose stem box was found names a qualifying image
\* of the page with the smallest gap below the stem, and no image when none
\* qualifies
C24_NearestQualifyingImage ==
    [][PageAtHand =>
          /\ Len(questions_with_images')
                 = Len(questions_with_images) + Len(PageNumbers)
          /\ \A i \in 1..Len(PageNumbers) :
                 LET record == questions_with_images'[Len(questions_with_images) + i]
                     scan == StemOf(i)
                     box == StemBoxOf(BlocksBefore(i), scan)
                     qualifying == Qualifying(box, scan.first_option_y0_for_q)
                 IN  /\ record.question_number = PageNumbers[i]
                     /\ Len(scan.stem) > 0 =>
                            IF qualifying = {}
                            THEN record.image_path = Nothing
                            ELSE \E j \in qualifying :
                                    /\ \A k \in qualifying : Gap(box, j) <= Gap(box, k)
                                    /\ record.image_path
                                           = Some(page_image_data_list[j].path)]_vars

\* of two images that qualify for question 1 the second of the page, which is the
\* nearer, was chosen; question 2 has no image
C24_Witness ==
    /\ ipc = "returned"
    /\ pdf.openable
    /\ Len(pdf.pages) = 1
    /\ pdf.pages[1].images = <<Image("rgb", Rect(60, 130, 200, 190)),
                               Image("rgb", Rect(60, 125, 200, 180))>>
    /\ Len(questions_with_images) = 2
    /\ questions_with_images[1].question_number = 1
    /\ questions_with_images[1].image_path = Some(ImagePath(1, 1))
    /\ questions_with_images[2].image_path = Nothing

-----------------------------------------------------------------------------
(* Properties of full-width letters in the erratum *)

\* the sentences that correct an answer to a full-width letter
FullWidthCorrections ==
    {s \in ErratumSentences : s.kind = "correction" /\ s.letter[1] \in FullWidthUpper}

\* C25: a block whose only sentence about N corrects N's answer to a full-width
\* letter ends with the half-width letter as N's answer and in N's note
C25_FullWidthCorrectionStoredHalfWidth ==
    ErratumDone =>
        \A s \in FullWidthCorrections :
            InBlock(s) =>
                \A n \in {k \in s.names : OthersNaming(s, k) = {}} :
                    /\ n \in DOMAIN answers
                    /\ answers[n] = <<normalize_full_width_alpha(s.letter)>>
                    /\ n \in DOMAIN notes
                    /\ notes[n] = CorrectionNote(normalize_full_width_alpha(s.letter))

-----------------------------------------------------------------------------
(* Properties of the free-text notes *)

\* the numbers the matches of the free-text pattern name
RemarkNumbers ==
    IF note_text = Nothing THEN {}
    ELSE {ToInt(m.g1) : m \in MatchesOf("c")}

\* C26: the pass of the free-text pattern leaves the answers map as it is, leaves
\* every note that is there as it is, and gives a note only to numbers its matches
\* name
C26_RemarksKeepAnswersAndNotes ==
    [][apc = "c" =>
          /\ answers' = answers
          /\ \A n \in DOMAIN notes : n \in DOMAIN notes' /\ notes'[n] = notes[n]
          /\ (DOMAIN notes') \ (DOMAIN notes) \subseteq RemarkNumbers
          /\ RemarkNumbers \subseteq DOMAIN notes']_vars

\* the free-text pattern matched a sentence about a number that had its note from
\* the full-credit pattern, and matched one about a number without note; the first
\* note is kept and the second number has its note
C26_Witness ==
    /\ apc = "d"
    /\ \E n \in RemarkNumbers : n \in DOMAIN notes /\ notes[n] = SONG_FEN
    /\ \E n \in RemarkNumbers :
           /\ n \in DOMAIN notes
           /\ notes[n] # SONG_FEN
           /\ \A v \in ErratumValues(n) : notes[n] # CorrectionNote(v[1])

-----------------------------------------------------------------------------
(* Properties of process_single_exam_set *)

\* the positions of the log where fn was called
LoggedCalls(fn) == {k \in 1..Len(db_log) : db_log[k].fn = fn}

\* process_exam_pdfs did not return a document, or its metadata has no subject
\* name, exam name, year or period
ParsingFailedOrMetadataLacking ==
    /\ Len(db_log) > 0
    /\ \/ db_log[1].result = Nothing
       \/ LET metadata == db_log[1].result[1].meta
          IN  \/ Missing(metadata.subject_name)
              \/ Missing(metadata.exam_name)
              \/ metadata.year = Nothing
              \/ metadata.period = Nothing

\* get_or_create_subject or get_or_create_test returned None
AnIdIsNull ==
    \E k \in LoggedCalls("get_or_create_subject") \cup LoggedCalls("get_or_create_test") :
        db_log[k].result = Nothing

\* C27: batch_insert_questions is called only after get_or_create_subject and then
\* get_or_create_test both returned an id, and every row given to it carries the id
\* of the test; when the parsing failed, the metadata has no subject name, exam
\* name, year or period, or one of the two calls returned None, no row is inserted
\* into the questions
C27_InsertOnlyAfterBothIdsWithTestId ==
    /\ \A k \in LoggedCalls("batch_insert_questions") :
          \E i \in LoggedCalls("get_or_create_subject"),
             j \in LoggedCalls("get_or_create_test") :
             /\ i < j /\ j < k
             /\ db_log[i].result # Nothing
             /\ db_log[j].result # Nothing
             /\ \A r \in 1..Len(db_log[k].questions_data_list) :
                   db_log[k].questions_data_list[r].test_id = db_log[j].result[1]
    /\ (ParsingFailedOrMetadataLacking \/ AnIdIsNull) =>
          /\ LoggedCalls("batch_insert_questions") = {}
          /\ questions_table = {}
    /\ \A row \in questions_table :
          \E k \in LoggedCalls("batch_insert_questions") :
             \E r \in db_log[k].stored :
                /\ db_log[k].questions_data_list[r].question_number = row.question_number
                /\ db_log[k].questions_data_list[r].test_id = row.test_id

\* rows were inserted for an exam set whose test was already in the database
C27_Witness ==
    /\ spc = "done"
    /\ \E k \in LoggedCalls("batch_insert_questions") :
          /\ db_log[k].stored # {}
          /\ \A r \in 1..Len(db_log[k].questions_data_list) :
                db_log[k].questions_data_list[r].test_id = 2
    /\ questions_table # {}

-----------------------------------------------------------------------------
(* Properties of the records and the question-start lines *)

\* the numbers captured on the lines that match the question-start pattern
RECURSIVE CapturedNumbers(_, _)
CapturedNumbers(lines, mode) ==
    IF Len(lines) = 0 THEN << >>
    ELSE CapturedNumbers(SubSeq(lines, 1, Len(lines) - 1), mode)
         \o (IF question_start_pattern(mode, lines[Len(lines)]).matched
             THEN <<ToInt(question_start_pattern(mode, lines[Len(lines)]).group1)>>
             ELSE << >>)

\* the question numbers of a list of records
NumbersOf(records) == [i \in 1..Len(records) |-> records[i].question_number]

\* C28 as stated: the list returned by parse_questions_from_pdf_text has one record
\* for each line that matches the question-start pattern, in the order of the
\* lines, with the number captured on the line, a line numbered 0 included
C28_OneRecordPerQuestionStartLine ==
    pc = "scan" =>
        NumbersOf(parse_questions_from_pdf_text(CurrentPage, parsing_mode))
            = CapturedNumbers(CurrentPage, parsing_mode)

\* C28, amended: the list returned by parse_questions_from_pdf_text has one record
\* for each line that matches the question-start pattern with a number other than
\* 0, in the order of the lines, with the number captured on the line; a line
\* numbered 0 starts a question that is not returned
C28_OneRecordPerNonZeroQuestionStartLine ==
    pc = "scan" =>
        /\ ScannerNow = ScanLines(CurrentPage, parsing_mode)
        /\ NumbersOf(parse_questions_from_pdf_text(CurrentPage, parsing_mode))
               = SelectSeq(CapturedNumbers(CurrentPage, parsing_mode),
                           LAMBDA n : n # 0)

\* three lines start a question, the second with the number 0, the third with the
\* number of the first: two records are returned
C28_Witness ==
    /\ pc = "scan"
    /\ CapturedNumbers(CurrentPage, parsing_mode) = <<1, 0, 1>>
    /\ NumbersOf(parse_questions_from_pdf_text(CurrentPage, parsing_mode)) = <<1, 1>>

-----------------------------------------------------------------------------
(* Properties of the merge on records held by reference *)

\* C29: combine_questions_and_answers returns a list as long as its questions, in
\* their order; each record has the keys and values of its question but for
\* correct_answer_key and notes; the records of the caller, the list that holds
\* them, answers_map and notes_map are what they were before the call
C29_MergeChangesOnlyAnswerKeyAndNotesOfCopies ==
    [][(apc = "combine" /\ apc' = "done") =>
          /\ Len(combined_data') = Len(questions)
          /\ \A i \in 1..Len(questions) :
                LET input == heap[questions[i]]
                    output == heap'[combined_data'[i]]
                IN  /\ DOMAIN output \subseteq
                           DOMAIN input \cup {"correct_answer_key", "notes"}
                    /\ \A key \in DOMAIN input \ {"correct_answer_key", "notes"} :
                          key \in DOMAIN output /\ output[key] = input[key]
          /\ \A address \in 1..Len(heap) : heap'[address] = heap[address]
          /\ questions' = questions
          /\ answers_map' = answers_map
          /\ notes_map' = notes_map]_vars

\* the list held question 3, which came with a note of its own, and the record
\* without a number: the record returned for question 3 has the note of notes_map
\* and no answer, the caller's record keeps its note and has no answer key, and the
\* record without a number is returned as it is
C29_Witness ==
    /\ apc = "done"
    /\ questions = <<3, 4>>
    /\ Len(combined_data) = 2
    /\ combined_data[1] > Len(QuestionObjects)
    /\ heap[combined_data[1]].notes = Some(<<"SONG_FEN">>)
    /\ heap[combined_data[1]].correct_answer_key = << >>
    /\ heap[3] = QuestionObjects[3]
    /\ combined_data[2] = 4

-----------------------------------------------------------------------------
(* Properties of get_or_create_subject under two workers *)

\* both workers asked for the same subject and are back, and no query or insert
\* failed for a reason of its own
BothBackForOneSubject ==
    /\ workers # << >>
    /\ \A w \in Workers : workers[w].wpc = "done" /\ ~workers[w].failed
    /\ workers["w1"].subject_name = workers["w2"].subject_name
    /\ supabase

\* C30 as stated: when two workers ask for the same subject at once, at most one
\* row is created for the name and both obtain the same id, however their calls
\* of get_or_create_subject interleave
C30_OneSubjectAndSameIdUnderInterleaving ==
    BothBackForOneSubject =>
        /\ Cardinality({w \in Workers : workers[w].inserted}) <= 1
        /\ workers["w1"].result = workers["w2"].result
        /\ workers["w1"].result # Nothing

\* both workers found no row and both inserted one: two rows of the name, two ids
C30_TwoRowsOfOneName ==
    /\ BothBackForOneSubject
    /\ \A w \in Workers : workers[w].inserted
    /\ Cardinality(SelectSubjects(workers["w1"].subject_name)) = 2
    /\ workers["w1"].result # workers["w2"].result

\* the table refuses the second row: the second worker is left without an id
C30_SecondWorkerWithoutId ==
    /\ BothBackForOneSubject
    /\ unique_names
    /\ \E w \in Workers : workers[w].conflict /\ workers[w].result = Nothing

=============================================================================
